---- MODULE Spec2Model ----
(***************************************************************************)
(* Portfolio backend: Express handlers over the MongoDB collections        *)
(* projects, testimonials and users.                                       *)
(*                                                                         *)
(* Every HTTP request is one action: the handler runs to completion,       *)
(* including the mongoose save hooks it triggers.  The store is the three  *)
(* collections, `clock` is the wall clock that stamps updatedAt and from   *)
(* which fresh _id values are drawn, and `resp` is the response of the     *)
(* last request.                                                           *)
(***************************************************************************)
EXTENDS Integers, Sequences, FiniteSets, TLC

VARIABLES
  projects,      \* _id -> project document
  testimonials,  \* _id -> testimonial document
  users,         \* _id -> user document
  tokens,        \* token issued -> whether its holder has seen it verified
  pending,       \* requests that have read the store and not yet written
  clock,         \* current time; also the source of fresh _id values
  resp           \* response of the last request

vars == <<projects, testimonials, users, tokens, pending, clock, resp>>

----------------------------------------------------------------------------
(* Bounds and program constants *)

\* Testimonial.js:274  `if (featuredCount >= 10)`
MaxFeatured == 10
\* number of stamped writes explored after the initial state
MaxWrites == 2
\* the initial time (documents that exist initially were stamped before it)
StartTime == MaxFeatured + 1
MaxClock == StartTime + MaxWrites

\* projectController.js:10 / part_000:10  `limit = 10`
DefaultLimit == 10
\* projectController.js:232 / part_000:258  `limit = 6`
FeaturedLimit == 6

\* an absent optional field of a request body or query string
NoVal == "undefined"

ProjectStatuses == {"draft", "published", "archived"}
TestimonialStatuses == {"pending", "approved", "rejected"}

\* req.user as the handler sees it: undefined on a route without
\* authenticateToken, the token's user otherwise
NoUser == "anonymous"
AdminUser == "admin"

----------------------------------------------------------------------------
(* Store helpers *)

Exists(coll, id) == id \in DOMAIN coll

Put(coll, id, doc) == [i \in DOMAIN coll \cup {id} |-> IF i = id THEN doc ELSE coll[i]]

Remove(coll, id) == [i \in DOMAIN coll \ {id} |-> coll[i]]

\* .skip(skip).limit(limit) over the matching documents.  The sort key is not
\* always modelled, so every selection of the right size is a possible page.
Slices(S, skip, limit) ==
  LET n == IF Cardinality(S) > skip THEN Cardinality(S) - skip ELSE 0
      k == IF n > limit THEN limit ELSE n
  IN {T \in SUBSET S : Cardinality(T) = k}

\* the documents of a response, as (id, status at the time of the response)
Docs(coll, S) == {<<i, coll[i].status>> : i \in S}

\* a response, with the request it answers: op is the handler, arg what the
\* request carried (where a property needs it)
Response(op, arg, code, id, recs) ==
  [op |-> op, arg |-> arg, code |-> code, id |-> id, recs |-> recs]

\* no request has been answered
NoResponse == Response("none", NoVal, 0, 0, {})

CanWrite == clock < MaxClock

\* an _id that no document has
MissingId == 0

\* the _id values requests name: those of the collection and a missing one
ReqIds(coll) == DOMAIN coll \cup {MissingId}

----------------------------------------------------------------------------
(* Numbers of a query string, and pagination *)

\* the value of a parameter that is no number
NaN == -1

\* parseInt of the parameters requests carry: the integer the string begins
\* with, whatever follows it; NaN when it begins with none
parseInt(v) ==
  CASE v = "0" -> 0
    [] v = "5abc" -> 5
    [] v = "1" -> 1
    [] v = "2" -> 2
    [] v = "3" -> 3
    [] v = "4" -> 4
    [] v = "5" -> 5
    [] v = "6" -> 6
    [] OTHER -> NaN

isNaN(n) == n = NaN

\* the page and limit parameters requests carry
PageParams == {NoVal, "1", "2", "abc"}

\* `const { page = 1 } = req.query`: the default when the parameter is
\* absent, else the string, which arithmetic converts to a number
QueryNumber(v, default) == IF v = NoVal THEN default ELSE parseInt(v)

\* a * b and a - b, where an operand that is no number makes the result NaN
Times(a, b) == IF isNaN(a) \/ isNaN(b) THEN NaN ELSE a * b

Minus(a, b) == IF isNaN(a) \/ isNaN(b) THEN NaN ELSE a - b

\* Math.ceil(total / limit)
CeilDiv(total, limit) == IF isNaN(limit) THEN NaN ELSE (total + limit - 1) \div limit

\* `.limit(limit * 1)` and `.skip((page - 1) * limit)`
LimitOf(limit) == Times(QueryNumber(limit, DefaultLimit), 1)

\* variant: skips page * limit documents
SkipOf_PageTimesLimit(page, limit) ==
  Times(QueryNumber(page, 1), QueryNumber(limit, DefaultLimit))

SkipOf(page, limit) == Times(Minus(QueryNumber(page, 1), 1), QueryNumber(limit, DefaultLimit))

\* the offset of document i among the documents S sorted by createdAt
\* descending (documents are created in _id order)
Offset(S, i) == Cardinality({j \in S : j > i})

\* .sort({ createdAt: -1 }).limit(limit).skip(skip) over the documents S
PageOf(S, skip, limit) == {i \in S : Offset(S, i) >= skip /\ Offset(S, i) < skip + limit}

\* the pagination object of a listing response
Pagination(total, page, limit) ==
  [page  |-> QueryNumber(page, 1),
   pages |-> CeilDiv(total, QueryNumber(limit, DefaultLimit)),
   total |-> total,
   limit |-> QueryNumber(limit, DefaultLimit)]

\* a listing response: a response with the query it answers and its
\* pagination object
Listing(op, user, query, docs, pagination) ==
  [op |-> op, arg |-> user, code |-> 200, id |-> 0, recs |-> docs,
   query |-> query, pagination |-> pagination]

\* the store is asked for a page with a skip or a limit that is no number:
\* it either fails the query (status 500) or ignores the option
BadPageCodes == {500, 200}

\* find(query).sort(...).limit(...).skip(...), countDocuments(query) and
\* res.json, where hits are the documents of coll that match the query
List(op, user, coll, hits, query) ==
  LET limit == LimitOf(query.limit)
      skip  == SkipOf(query.page, query.limit)
      page  == PageOf(hits, IF isNaN(skip) THEN 0 ELSE skip,
                      IF isNaN(limit) THEN Cardinality(hits) ELSE limit)
      pagination == Pagination(Cardinality(hits), query.page, query.limit)
  IN IF isNaN(limit) \/ isNaN(skip)
     THEN \E code \in BadPageCodes :
            resp' = IF code = 200
                    THEN Listing(op, user, query, Docs(coll, page), pagination)
                    ELSE Response(op, user, code, 0, {}) @@ [query |-> query]
     ELSE resp' = Listing(op, user, query, Docs(coll, page), pagination)

----------------------------------------------------------------------------
(* Route guards: authenticateToken, requireAdmin (middleware/auth.js) *)

\* what the Authorization header of a request carries
Creds == {"none", "invalid", "nonadmin", "admin"}

\* 0 when the request reaches the handler, else the status it is refused with
Authorize(cred) ==
  CASE cred = "none" -> 401
    [] cred = "invalid" -> 401
    [] cred = "nonadmin" -> 403
    [] OTHER -> 0

\* a protected route refuses the request before the handler runs
Refuse(op, cred) ==
  /\ Authorize(cred) # 0
  /\ resp' = Response(op, cred, Authorize(cred), 0, {})
  /\ UNCHANGED <<projects, testimonials, users, tokens, pending, clock>>

\* the guards call next(): the request goes on to its handler.  Status 0
\* says that no response has been sent yet.
Admit(op, cred) ==
  /\ Authorize(cred) = 0
  /\ resp' = Response(op, cred, 0, 0, {})
  /\ UNCHANGED <<projects, testimonials, users, tokens, pending, clock>>

\* the handler of op runs next: the guards have let its request through
Admitted(op) == resp.code = 0 /\ resp.op = op

----------------------------------------------------------------------------
(* Projects: models/Project.js, controllers/projectController.js *)

\* an optional boolean of a body or a query string, as it is written there
OptBool == {NoVal, "true", "false"}

\* `featured === 'true'` (query string); a JSON true of a body
IsTrue(v) == v = "true"

\* `typeof v === 'boolean'`
IsBoolean(v) == v \in {"true", "false"}

\* the fields of a project body that the model keeps
ProjectBodies == [status : ProjectStatuses \cup {NoVal}, featured : OptBool]

\* schema defaults: status 'published', featured false, viewCount 0
NewProject(body) ==
  [status    |-> IF body.status = NoVal THEN "published" ELSE body.status,
   featured  |-> IF body.featured = NoVal THEN FALSE ELSE IsTrue(body.featured),
   viewCount |-> 0]

\* findByIdAndUpdate: the fields present in the body replace the stored ones
ApplyProjectUpdate(doc, body) ==
  [doc EXCEPT !.status   = IF body.status = NoVal THEN @ ELSE body.status,
              !.featured = IF body.featured = NoVal THEN @ ELSE IsTrue(body.featured)]

\* variant: counts a view twice
incrementViews_Twice(doc) == [doc EXCEPT !.viewCount = @ + 2]

\* projectSchema.methods.incrementViews
incrementViews(doc) == [doc EXCEPT !.viewCount = @ + 1]

\* the status a listing filters by: forced to the public one unless admin
ProjectQueryStatus(user, status) ==
  IF status # NoVal /\ user = AdminUser THEN status ELSE "published"

\* variant: only drafts are hidden
ProjectHidden_DraftOnly(user, doc) == doc.status = "draft" /\ user # AdminUser

\* the status check of getProject: TRUE when the document is hidden
ProjectHidden(user, doc) == doc.status # "published" /\ user # AdminUser

\* GET /api/projects (public route: req.user is undefined).  `match` is the
\* set of documents that pass the year/tech/search filters of the query.
getProjects(user, status, featured, match, page, limit) ==
  LET st == IF status = NoVal THEN "published" ELSE status
      hits == {i \in DOMAIN projects \cap match :
                 /\ projects[i].status = ProjectQueryStatus(user, st)
                 /\ featured # NoVal => projects[i].featured = IsTrue(featured)}
  IN /\ List("getProjects", user, projects, hits,
             [status |-> status, featured |-> featured, match |-> match,
              page |-> page, limit |-> limit])
     /\ UNCHANGED <<projects, testimonials, users, tokens, pending, clock>>

\* GET /api/projects/:id (public route)
getProject(user, id) ==
  IF ~Exists(projects, id) \/ ProjectHidden(user, projects[id])
  THEN /\ resp' = Response("getProject", user, 404, id, {})
       /\ UNCHANGED <<projects, testimonials, users, tokens, pending, clock>>
  ELSE IF projects[id].status = "published"
  THEN /\ CanWrite
       /\ clock' = clock + 1
       /\ projects' = Put(projects, id, incrementViews(projects[id]))
       /\ resp' = Response("getProject", user, 200, id, Docs(projects, {id}))
       /\ UNCHANGED <<testimonials, users, tokens, pending>>
  ELSE /\ resp' = Response("getProject", user, 200, id, Docs(projects, {id}))
       /\ UNCHANGED <<projects, testimonials, users, tokens, pending, clock>>

\* POST /api/projects
createProject(body) ==
  /\ CanWrite
  /\ clock' = clock + 1
  /\ projects' = Put(projects, clock + 1, NewProject(body))
  /\ resp' = Response("createProject", NoVal, 201, clock + 1, {<<clock + 1, NewProject(body).status>>})
  /\ UNCHANGED <<testimonials, users, tokens, pending>>

\* PUT /api/projects/:id
updateProject(id, body) ==
  IF ~Exists(projects, id)
  THEN /\ resp' = Response("updateProject", NoVal, 404, id, {})
       /\ UNCHANGED <<projects, testimonials, users, tokens, pending, clock>>
  ELSE /\ CanWrite
       /\ clock' = clock + 1
       /\ projects' = Put(projects, id, ApplyProjectUpdate(projects[id], body))
       /\ resp' = Response("updateProject", NoVal, 200, id, Docs(projects', {id}))
       /\ UNCHANGED <<testimonials, users, tokens, pending>>

\* DELETE /api/projects/:id
deleteProject(id) ==
  IF ~Exists(projects, id)
  THEN /\ resp' = Response("deleteProject", NoVal, 404, id, {})
       /\ UNCHANGED <<projects, testimonials, users, tokens, pending, clock>>
  ELSE /\ CanWrite
       /\ clock' = clock + 1
       /\ projects' = Remove(projects, id)
       /\ resp' = Response("deleteProject", NoVal, 200, id, Docs(projects, {id}))
       /\ UNCHANGED <<testimonials, users, tokens, pending>>

\* the value the featured handler stores
ProjectFeaturedValue(doc, featured) == IsTrue(featured)

\* PATCH /api/projects/:id/toggle-featured (projectController.toggleFeatured)
Project_toggleFeatured(id, featured) ==
  IF ~Exists(projects, id)
  THEN /\ resp' = Response("toggleFeatured", NoVal, 404, id, {})
       /\ UNCHANGED <<projects, testimonials, users, tokens, pending, clock>>
  ELSE IF ~IsBoolean(featured)
  THEN /\ resp' = Response("toggleFeatured", NoVal, 400, id, {})
       /\ UNCHANGED <<projects, testimonials, users, tokens, pending, clock>>
  ELSE /\ CanWrite
       /\ clock' = clock + 1
       /\ projects' = Put(projects, id,
            [projects[id] EXCEPT !.featured = ProjectFeaturedValue(projects[id], featured)])
       /\ resp' = Response("toggleFeatured", [before |-> projects[id].featured],
                           200, id, Docs(projects, {id}))
       /\ UNCHANGED <<testimonials, users, tokens, pending>>

\* GET /api/projects/featured: Project.findFeatured().limit(limit)
getFeaturedProjects ==
  LET hits == {i \in DOMAIN projects :
                 projects[i].featured /\ projects[i].status = "published"}
  IN /\ \E page \in Slices(hits, 0, FeaturedLimit) :
          resp' = Response("getFeaturedProjects", NoVal, 200, 0, Docs(projects, page))
     /\ UNCHANGED <<projects, testimonials, users, tokens, pending, clock>>

\* GET /api/projects/year/:year and /technology/:tech: Project.findByYear,
\* Project.findByTechnology.  `match` is the set of documents with that year
\* (that technology).
getProjectsByYear(match, page, limit) ==
  LET hits == {i \in DOMAIN projects \cap match : projects[i].status = "published"}
  IN /\ List("getProjectsByYear", NoVal, projects, hits,
             [match |-> match, page |-> page, limit |-> limit])
     /\ UNCHANGED <<projects, testimonials, users, tokens, pending, clock>>

getProjectsByTechnology(match, page, limit) ==
  LET hits == {i \in DOMAIN projects \cap match : projects[i].status = "published"}
  IN /\ List("getProjectsByTechnology", NoVal, projects, hits,
             [match |-> match, page |-> page, limit |-> limit])
     /\ UNCHANGED <<projects, testimonials, users, tokens, pending, clock>>

----------------------------------------------------------------------------
(* Testimonials: models/Testimonial.js, controllers/testimonialController.js *)
(* and its second version unnamed/part_000                                   *)

\* the ratings requests carry (validateTestimonial: an integer in 1..5)
Ratings == {4, 5}

TestimonialBodies ==
  [rating : Ratings, featured : OptBool, verified : {NoVal, "true"},
   status : {NoVal, "pending"}]

\* schema defaults: featured false, status 'approved', verified false
NewTestimonial(body, now) ==
  [status    |-> IF body.status = NoVal THEN "approved" ELSE body.status,
   featured  |-> IF body.featured = NoVal THEN FALSE ELSE IsTrue(body.featured),
   rating    |-> body.rating,
   verified  |-> IF body.verified = NoVal THEN FALSE ELSE IsTrue(body.verified),
   updatedAt |-> now]

\* variant: features every new five-star testimonial
PreSave_AnyFiveStar(doc, isNew) ==
  IF isNew /\ doc.rating = 5
  THEN [doc EXCEPT !.featured = TRUE]
  ELSE doc

\* testimonialSchema.pre('save')
PreSave(doc, isNew) ==
  IF isNew /\ doc.rating = 5 /\ doc.verified
  THEN [doc EXCEPT !.featured = TRUE]
  ELSE doc

\* `featuredCount >= 10`
EvictionNeeded(featuredCount) == featuredCount >= MaxFeatured

\* variant: sorts by updatedAt descending
OldestFeatured_Newest(ts, others) ==
  {i \in others : \A j \in others : ts[i].updatedAt >= ts[j].updatedAt}

\* findOne({featured: true, _id: {$ne: doc._id}}).sort({updatedAt: 1}): the
\* candidates, one of which the store returns (several when updatedAt ties)
OldestFeatured(ts, others) ==
  {i \in others : \A j \in others : ts[i].updatedAt <= ts[j].updatedAt}

\* testimonialSchema.post('save'): the possible contents of the collection
\* after the hook has run for document id.  The evicted document is saved
\* too; its own hook does nothing, since it is no longer featured.
PostSave(ts, id, now) ==
  LET others == {i \in DOMAIN ts \ {id} : ts[i].featured}
  IN IF ts[id].featured /\ EvictionNeeded(Cardinality(others))
     THEN {Put(ts, o, [ts[o] EXCEPT !.featured = FALSE, !.updatedAt = now]) :
             o \in OldestFeatured(ts, others)}
     ELSE {ts}

\* doc.save() of an existing document: `timestamps: true` stamps updatedAt
\* when a path was modified; then the post-save hook runs
Save(ts, id, doc, now) ==
  LET stamped == IF doc # ts[id] THEN [doc EXCEPT !.updatedAt = now] ELSE doc
  IN PostSave(Put(ts, id, stamped), id, now)

\* a save that also changes updatedBy (req.user.id differs from the stored
\* one): the document counts as modified whatever else changed
SaveBy(ts, id, doc, byOther, now) ==
  LET stamped == IF doc # ts[id] \/ byOther THEN [doc EXCEPT !.updatedAt = now] ELSE doc
  IN PostSave(Put(ts, id, stamped), id, now)

\* findByIdAndUpdate: the fields of the body replace the stored ones and
\* updatedAt is stamped; no save hook runs
ApplyTestimonialUpdate(doc, body, now) ==
  [doc EXCEPT !.rating    = body.rating,
              !.status    = IF body.status = NoVal THEN @ ELSE body.status,
              !.featured  = IF body.featured = NoVal THEN @ ELSE IsTrue(body.featured),
              !.verified  = IF body.verified = NoVal THEN @ ELSE IsTrue(body.verified),
              !.updatedAt = now]

\* POST /api/testimonials: Testimonial.create
createTestimonial(body) ==
  LET now == clock + 1
      doc == PreSave(NewTestimonial(body, now), TRUE)
  IN /\ CanWrite
     /\ clock' = now
     /\ testimonials' \in PostSave(Put(testimonials, now, doc), now, now)
     /\ resp' = Response("createTestimonial", body, 201, now, {<<now, doc.status>>})
     /\ UNCHANGED <<projects, users, tokens, pending>>

\* PUT /api/testimonials/:id
updateTestimonial(id, body) ==
  IF ~Exists(testimonials, id)
  THEN /\ resp' = Response("updateTestimonial", NoVal, 404, id, {})
       /\ UNCHANGED <<projects, testimonials, users, tokens, pending, clock>>
  ELSE /\ CanWrite
       /\ clock' = clock + 1
       /\ testimonials' = Put(testimonials, id,
                              ApplyTestimonialUpdate(testimonials[id], body, clock + 1))
       /\ resp' = Response("updateTestimonial", NoVal, 200, id, Docs(testimonials', {id}))
       /\ UNCHANGED <<projects, users, tokens, pending>>

\* DELETE /api/testimonials/:id
deleteTestimonial(id) ==
  IF ~Exists(testimonials, id)
  THEN /\ resp' = Response("deleteTestimonial", NoVal, 404, id, {})
       /\ UNCHANGED <<projects, testimonials, users, tokens, pending, clock>>
  ELSE /\ CanWrite
       /\ clock' = clock + 1
       /\ testimonials' = Remove(testimonials, id)
       /\ resp' = Response("deleteTestimonial", NoVal, 200, id, Docs(testimonials, {id}))
       /\ UNCHANGED <<projects, users, tokens, pending>>

\* a handler that changes document id to doc and saves it once
SaveOnce(op, id, doc, byOther) ==
  /\ CanWrite
  /\ clock' = clock + 1
  /\ testimonials' \in SaveBy(testimonials, id, doc, byOther, clock + 1)
  /\ resp' = Response(op, NoVal, 200, id, {<<id, doc.status>>})
  /\ UNCHANGED <<projects, users, tokens, pending>>

\* a handler that calls an instance method (which saves), then sets updatedBy
\* and saves again: approve, reject, verify
SaveTwice(op, id, doc, byOther) ==
  /\ CanWrite
  /\ clock' = clock + 1
  /\ \E first \in Save(testimonials, id, doc, clock + 1) :
       testimonials' \in SaveBy(first, id, first[id], byOther, clock + 1)
  /\ resp' = Response(op, NoVal, 200, id, {<<id, doc.status>>})
  /\ UNCHANGED <<projects, users, tokens, pending>>

NotFound(op, arg, id) ==
  /\ resp' = Response(op, arg, 404, id, {})
  /\ UNCHANGED <<projects, testimonials, users, tokens, pending, clock>>

\* PATCH /api/testimonials/:id/toggle-featured, part_000 version
Testimonial_toggleFeatured(id, byOther) ==
  IF ~Exists(testimonials, id)
  THEN NotFound("toggleFeaturedTestimonial", NoVal, id)
  ELSE SaveOnce("toggleFeaturedTestimonial", id,
                [testimonials[id] EXCEPT !.featured = ~@], byOther)

\* PATCH /api/testimonials/:id/toggle-featured, testimonialController.js version
Testimonial_setFeatured(id, featured, byOther) ==
  IF ~Exists(testimonials, id)
  THEN NotFound("setFeaturedTestimonial", NoVal, id)
  ELSE IF ~IsBoolean(featured)
  THEN /\ resp' = Response("setFeaturedTestimonial", NoVal, 400, id, {})
       /\ UNCHANGED <<projects, testimonials, users, tokens, pending, clock>>
  ELSE SaveOnce("setFeaturedTestimonial", id,
                [testimonials[id] EXCEPT !.featured = IsTrue(featured)], byOther)

\* PATCH /api/testimonials/:id/approve
approveTestimonial(id, byOther) ==
  IF ~Exists(testimonials, id)
  THEN NotFound("approveTestimonial", NoVal, id)
  ELSE SaveTwice("approveTestimonial", id,
                 [testimonials[id] EXCEPT !.status = "approved"], byOther)

\* PATCH /api/testimonials/:id/reject
rejectTestimonial(id, byOther) ==
  IF ~Exists(testimonials, id)
  THEN NotFound("rejectTestimonial", NoVal, id)
  ELSE SaveTwice("rejectTestimonial", id,
                 [testimonials[id] EXCEPT !.status = "rejected"], byOther)

\* variant: verifying a five-star testimonial features it
verifyTestimonial_AutoFeature(id, byOther) ==
  IF ~Exists(testimonials, id)
  THEN NotFound("verifyTestimonial", NoVal, id)
  ELSE SaveTwice("verifyTestimonial", id,
                 [testimonials[id] EXCEPT !.verified = TRUE, !.featured = @ \/ testimonials[id].rating = 5],
                 byOther)

\* PATCH /api/testimonials/:id/verify
verifyTestimonial(id, byOther) ==
  IF ~Exists(testimonials, id)
  THEN NotFound("verifyTestimonial", NoVal, id)
  ELSE SaveTwice("verifyTestimonial", id,
                 [testimonials[id] EXCEPT !.verified = TRUE], byOther)

\* the rating parameters requests carry
RatingParams == {"abc", "5abc", "0", "4", "5", "6"}

\* the status a listing filters by: forced to the public one unless admin
TestimonialQueryStatus(user, status) ==
  IF status # NoVal /\ user = AdminUser THEN status ELSE "approved"

\* variant: only pending testimonials are hidden
TestimonialHidden_PendingOnly(user, doc) == doc.status = "pending" /\ user # AdminUser

\* the status check of getTestimonial: TRUE when the document is hidden
TestimonialHidden(user, doc) == doc.status # "approved" /\ user # AdminUser

\* GET /api/testimonials.  `match` is the set of documents that pass the
\* company/search filters of the query.
getTestimonials(user, status, featured, rating, match, page, limit) ==
  LET st == IF status = NoVal THEN "approved" ELSE status
      hits == {i \in DOMAIN testimonials \cap match :
                 /\ testimonials[i].status = TestimonialQueryStatus(user, st)
                 /\ featured # NoVal => testimonials[i].featured = IsTrue(featured)
                 /\ (rating # NoVal /\ ~isNaN(parseInt(rating)))
                      => testimonials[i].rating >= parseInt(rating)}
  IN /\ List("getTestimonials", user, testimonials, hits,
             [status |-> status, featured |-> featured, rating |-> rating,
              match |-> match, page |-> page, limit |-> limit])
     /\ UNCHANGED <<projects, testimonials, users, tokens, pending, clock>>

\* GET /api/testimonials/:id (public route)
getTestimonial(user, id) ==
  IF ~Exists(testimonials, id) \/ TestimonialHidden(user, testimonials[id])
  THEN NotFound("getTestimonial", user, id)
  ELSE /\ resp' = Response("getTestimonial", user, 200, id, Docs(testimonials, {id}))
       /\ UNCHANGED <<projects, testimonials, users, tokens, pending, clock>>

\* Testimonial.findFeatured / the inline filter of part_000
findFeatured == {i \in DOMAIN testimonials :
                   testimonials[i].featured /\ testimonials[i].status = "approved"}

\* Testimonial.findByRating / the inline filter of part_000
findByRating(minRating) ==
  {i \in DOMAIN testimonials :
     testimonials[i].rating >= minRating /\ testimonials[i].status = "approved"}

\* Testimonial.findByCompany over the documents whose company matches
findByCompany(match) ==
  {i \in DOMAIN testimonials \cap match : testimonials[i].status = "approved"}

\* GET /api/testimonials/featured
getFeaturedTestimonials ==
  /\ \E page \in Slices(findFeatured, 0, FeaturedLimit) :
       resp' = Response("getFeaturedTestimonials", NoVal, 200, 0, Docs(testimonials, page))
  /\ UNCHANGED <<projects, testimonials, users, tokens, pending, clock>>

\* GET /api/testimonials/rating/:rating
getTestimonialsByRating(rating, page, limit) ==
  LET minRating == parseInt(rating)
  IN IF isNaN(minRating) \/ minRating < 1 \/ minRating > 5
     THEN /\ resp' = Response("getTestimonialsByRating", NoVal, 400, 0, {}) @@
                       [query |-> [rating |-> rating, page |-> page, limit |-> limit]]
          /\ UNCHANGED <<projects, testimonials, users, tokens, pending, clock>>
     ELSE /\ List("getTestimonialsByRating", NoVal, testimonials, findByRating(minRating),
                  [rating |-> rating, page |-> page, limit |-> limit])
          /\ UNCHANGED <<projects, testimonials, users, tokens, pending, clock>>

\* GET /api/testimonials/company/:company
getTestimonialsByCompany(match, page, limit) ==
  /\ List("getTestimonialsByCompany", NoVal, testimonials, findByCompany(match),
          [match |-> match, page |-> page, limit |-> limit])
  /\ UNCHANGED <<projects, testimonials, users, tokens, pending, clock>>

----------------------------------------------------------------------------
(* Authentication: controllers/authController.js.  The User model and the  *)
(* authenticateToken middleware are not part of the sources at hand; what  *)
(* the model needs of them follows the documented schema: username and     *)
(* email unique, isActive true by default, lastLogin set by                *)
(* updateLastLogin.                                                        *)

Usernames == {"alice", "bob"}
RawEmails == {"a@x.io", "A@x.io", "b@x.io"}
Passwords == {"Passw0rd1", "Passw0rd2"}

\* express-validator normalizeEmail() on the addresses above
normalizeEmail(e) == IF e = "A@x.io" THEN "a@x.io" ELSE e

Emails == {normalizeEmail(e) : e \in RawEmails}

\* variant: every password has the same hash
hash_Constant(password) == <<"bcrypt", "Passw0rd1">>

\* bcrypt.hash and bcrypt.compare: the hash is not the password, and only
\* the password it was made from compares equal to it
hash(password) == <<"bcrypt", password>>

\* variant: any password matches
compare_Any(password, hashed) == TRUE

compare(password, hashed) == hashed = hash(password)

\* lifetime of a token, in clock ticks ('24h')
TokenLifetime == 1

\* jwt.sign({id, email, role}, secret, {expiresIn})
generateToken(id, user, now) ==
  [id |-> id, email |-> user.email, role |-> user.role, exp |-> now + TokenLifetime,
   sig |-> "secret"]

\* the same token signed with another key
Forged(t) == [t EXCEPT !.sig = "other"]

\* jwt.verify(token, secret): the signature is ours and the token has not
\* expired
jwtVerify(t, now) == t.sig = "secret" /\ now < t.exp

findByEmail(us, email) == {i \in DOMAIN us : us[i].email = email}

findByUsername(us, username) == {i \in DOMAIN us : us[i].username = username}

\* variant: no unique index
UniqueIndexes_None(us, id, doc) == TRUE

\* the unique indexes on username and email: whether the store accepts doc
\* as the document with this id
UniqueIndexes(us, id, doc) ==
  \A i \in DOMAIN us \ {id} : us[i].email # doc.email /\ us[i].username # doc.username

\* the status a write refused by a unique index ends with
DuplicateKeyCodes == {409, 500}

RegisterBodies == [username : Usernames, email : Emails, password : Passwords]

\* variant: looks the email up only
RegisterConflict_EmailOnly(us, body) == findByEmail(us, body.email) # {}

\* register, lines 25-37: 409 when the email or the username is taken
RegisterConflict(us, body) ==
  findByEmail(us, body.email) # {} \/ findByUsername(us, body.username) # {}

\* user.toJSON(): the document without its password
toJSON(user) ==
  [username |-> user.username, email |-> user.email, role |-> user.role,
   isActive |-> user.isActive, lastLogin |-> user.lastLogin]

\* variant: the new user has never logged in
NewUser_NeverLoggedIn(body, now) ==
  [username |-> body.username, email |-> body.email, password |-> hash(body.password),
   role |-> "admin", isActive |-> TRUE, lastLogin |-> 0]

\* User.create({username, email, password: hashedPassword, role: 'admin'})
\* followed by user.updateLastLogin()
NewUser(body, now) ==
  [username |-> body.username, email |-> body.email, password |-> hash(body.password),
   role |-> "admin", isActive |-> TRUE, lastLogin |-> now]

\* the part of register after its two lookups: the insert, the token, the
\* response
RegisterCreate(body) ==
  LET now == clock + 1
      doc == NewUser(body, now)
      tok == generateToken(now, doc, now)
  IN IF UniqueIndexes(users, now, doc)
     THEN /\ CanWrite
          /\ clock' = now
          /\ users' = Put(users, now, doc)
          /\ tokens' = Put(tokens, tok, FALSE)
          /\ resp' = Response("register", body, 201, now, {tok}) @@ [user |-> toJSON(doc)]
     ELSE /\ \E code \in DuplicateKeyCodes :
               resp' = Response("register", body, code, 0, {})
          /\ UNCHANGED <<users, tokens, clock>>

RegisterRefuse(body) ==
  /\ RegisterConflict(users, body)
  /\ resp' = Response("register", body, 409, 0, {})
  /\ UNCHANGED <<users, tokens, clock>>

\* POST /api/auth/register, handled without another request in between
register(body) ==
  /\ \/ RegisterRefuse(body)
     \/ ~RegisterConflict(users, body) /\ RegisterCreate(body)
  /\ UNCHANGED <<projects, testimonials, pending>>

LoginBodies == [email : Emails, password : Passwords]

\* the status login fails with, or 0 when the credentials are good
LoginFailure(us, body) ==
  IF findByEmail(us, body.email) = {} THEN 401
  ELSE IF \E i \in findByEmail(us, body.email) : ~us[i].isActive THEN 401
  ELSE IF \E i \in findByEmail(us, body.email) : ~compare(body.password, us[i].password) THEN 401
  ELSE 0

\* user.updateLastLogin()
updateLastLogin(user, now) == [user EXCEPT !.lastLogin = now]

\* POST /api/auth/login
login(body) ==
  /\ IF LoginFailure(users, body) # 0
     THEN /\ resp' = Response("login", body, LoginFailure(users, body), 0, {})
          /\ UNCHANGED <<users, tokens, clock>>
     ELSE \E id \in findByEmail(users, body.email) :
            LET now == clock + 1
                doc == updateLastLogin(users[id], now)
                tok == generateToken(id, doc, now)
            IN /\ CanWrite
               /\ clock' = now
               /\ users' = Put(users, id, doc)
               /\ tokens' = Put(tokens, tok, FALSE)
               /\ resp' = Response("login", body, 200, id, {tok}) @@ [user |-> toJSON(doc)]
  /\ UNCHANGED <<projects, testimonials, pending>>

\* no Authorization header
NoToken == [id |-> 0, email |-> NoVal, role |-> NoVal, exp |-> 0, sig |-> NoVal]

\* what a client may put in the Authorization header: nothing, a token this
\* server issued, or such a token signed with another key
Bearers == {NoToken} \cup DOMAIN tokens \cup {Forged(t) : t \in DOMAIN tokens}

\* authenticateToken: the request goes on to its handler, with the token's
\* claims as req.user
Authenticated(t) == t # NoToken /\ jwtVerify(t, clock)

\* a request to a private route that authenticateToken turns away
AuthRefuse(op, t) ==
  /\ ~Authenticated(t)
  /\ resp' = Response(op, t, 401, 0, {})
  /\ UNCHANGED <<projects, testimonials, users, tokens, pending, clock>>

\* GET /api/auth/me
getProfile(t) ==
  /\ Authenticated(t)
  /\ IF ~Exists(users, t.id)
     THEN resp' = Response("getProfile", t, 404, t.id, {})
     ELSE resp' = Response("getProfile", t, 200, t.id, {toJSON(users[t.id])})
  /\ UNCHANGED <<projects, testimonials, users, tokens, pending, clock>>

ProfileBodies == [username : Usernames \cup {NoVal}, email : Emails \cup {NoVal}]

\* updateProfile, lines 136-152: 409 when the new email or the new username
\* is taken
ProfileConflict(us, id, body) ==
  \/ body.email # NoVal /\ body.email # us[id].email /\ findByEmail(us, body.email) # {}
  \/ body.username # NoVal /\ body.username # us[id].username
       /\ findByUsername(us, body.username) # {}

\* lines 155-156: the fields the handler assigns a new value, which are the
\* ones user.save() writes
ProfileChanges(user, body) ==
  [username |-> IF body.username # user.username THEN body.username ELSE NoVal,
   email    |-> IF body.email # user.email THEN body.email ELSE NoVal]

ApplyProfileChanges(user, set) ==
  [user EXCEPT !.username = IF set.username # NoVal THEN set.username ELSE @,
               !.email    = IF set.email # NoVal THEN set.email ELSE @]

\* user.save() of the changed fields, and the response
ProfileSave(t, id, set) ==
  LET doc == ApplyProfileChanges(users[id], set)
  IN /\ Exists(users, id)
     /\ IF UniqueIndexes(users, id, doc)
        THEN /\ users' = Put(users, id, doc)
             /\ resp' = Response("updateProfile", t, 200, id, {toJSON(doc)})
        ELSE /\ \E code \in DuplicateKeyCodes :
                  resp' = Response("updateProfile", t, code, id, {})
             /\ UNCHANGED users
     /\ UNCHANGED <<tokens, clock>>

ProfileRefuse(t, body) ==
  /\ Authenticated(t)
  /\ IF ~Exists(users, t.id)
     THEN resp' = Response("updateProfile", t, 404, t.id, {})
     ELSE /\ ProfileConflict(users, t.id, body)
          /\ resp' = Response("updateProfile", t, 409, t.id, {})
  /\ UNCHANGED <<users, tokens, clock>>

\* PUT /api/auth/profile, handled without another request in between
updateProfile(t, body) ==
  /\ \/ ProfileRefuse(t, body)
     \/ /\ Authenticated(t)
        /\ Exists(users, t.id)
        /\ ~ProfileConflict(users, t.id, body)
        /\ ProfileSave(t, t.id, ProfileChanges(users[t.id], body))
  /\ UNCHANGED <<projects, testimonials, pending>>

PasswordBodies == [currentPassword : Passwords, newPassword : Passwords]

\* PUT /api/auth/change-password
changePassword(t, body) ==
  /\ Authenticated(t)
  /\ IF ~Exists(users, t.id)
     THEN /\ resp' = Response("changePassword", t, 404, t.id, {})
          /\ UNCHANGED users
     ELSE IF ~compare(body.currentPassword, users[t.id].password)
     THEN /\ resp' = Response("changePassword", t, 400, t.id, {}) @@ [body |-> body]
          /\ UNCHANGED users
     ELSE /\ users' = Put(users, t.id, [users[t.id] EXCEPT !.password = hash(body.newPassword)])
          /\ resp' = Response("changePassword", t, 200, t.id, {}) @@ [body |-> body]
  /\ UNCHANGED <<projects, testimonials, tokens, pending, clock>>

\* variant: does not look at isActive
SubjectActive_ExistsOnly(us, t) == Exists(us, t.id)

\* verifyToken, lines 215-216: the user the token names exists and is active
SubjectActive(us, t) == Exists(us, t.id) /\ us[t.id].isActive

\* the status verifyToken answers with
VerifyStatus(us, t, now) ==
  IF t = NoToken THEN 401
  ELSE IF ~jwtVerify(t, now) THEN 401
  ELSE IF ~SubjectActive(us, t) THEN 401
  ELSE 200

\* POST /api/auth/verify-token.  tokens records, for each token issued,
\* whether its holder has seen it verified.
verifyToken(t) ==
  /\ resp' = Response("verifyToken", t, VerifyStatus(users, t, clock), t.id,
                      IF VerifyStatus(users, t, clock) = 200 THEN {toJSON(users[t.id])} ELSE {})
  /\ tokens' = IF VerifyStatus(users, t, clock) = 200 THEN Put(tokens, t, TRUE) ELSE tokens
  /\ UNCHANGED <<projects, testimonials, users, pending, clock>>

\* variant: logout deactivates the account
logout_Deactivate(t) ==
  /\ Authenticated(t)
  /\ resp' = Response("logout", t, 200, t.id, {})
  /\ users' = IF Exists(users, t.id)
              THEN Put(users, t.id, [users[t.id] EXCEPT !.isActive = FALSE])
              ELSE users
  /\ UNCHANGED <<projects, testimonials, tokens, pending, clock>>

\* POST /api/auth/logout
logout(t) ==
  /\ Authenticated(t)
  /\ resp' = Response("logout", t, 200, t.id, {})
  /\ UNCHANGED <<projects, testimonials, users, tokens, pending, clock>>

\* requireAdmin, after authenticateToken: the role of the token's claims
IsAdmin(t) == t.role = "admin"

\* variant: the listing selects every field
SelectWithoutPassword_Nothing(user) == user

\* .select('-password'): every field of the document but its password
SelectWithoutPassword(user) == [f \in DOMAIN user \ {"password"} |-> user[f]]

\* GET /api/auth/users (authenticateToken, requireAdmin).  `match` is the set
\* of users that pass the search and role filters of the query.
getUsers(t, match, page, limit) ==
  LET hits  == DOMAIN users \cap match
      query == [match |-> match, page |-> page, limit |-> limit]
      lim   == LimitOf(limit)
      skip  == SkipOf(page, limit)
      ids   == PageOf(hits, IF isNaN(skip) THEN 0 ELSE skip,
                      IF isNaN(lim) THEN Cardinality(hits) ELSE lim)
      found == {SelectWithoutPassword(users[i]) : i \in ids}
      ok    == Listing("getUsers", t, query, found, Pagination(Cardinality(hits), page, limit))
  IN /\ Authenticated(t)
     /\ IF ~IsAdmin(t)
        THEN resp' = Response("getUsers", t, 403, 0, {})
        ELSE IF isNaN(lim) \/ isNaN(skip)
        THEN \E code \in BadPageCodes :
               resp' = IF code = 200 THEN ok
                       ELSE Response("getUsers", t, code, 0, {}) @@ [query |-> query]
        ELSE resp' = ok
     /\ UNCHANGED <<projects, testimonials, users, tokens, pending, clock>>

\* an operator clears the active flag of a user in the store; the response
\* of the request before it is no longer the latest event
deactivateUser(id) ==
  /\ Exists(users, id)
  /\ users[id].isActive
  /\ users' = Put(users, id, [users[id] EXCEPT !.isActive = FALSE])
  /\ resp' = NoResponse
  /\ UNCHANGED <<projects, testimonials, tokens, pending, clock>>

\* an operator deletes a user from the store
removeUser(id) ==
  /\ Exists(users, id)
  /\ users' = Remove(users, id)
  /\ resp' = NoResponse
  /\ UNCHANGED <<projects, testimonials, tokens, pending, clock>>

\* time passes
Tick ==
  /\ CanWrite
  /\ clock' = clock + 1
  /\ resp' = NoResponse
  /\ UNCHANGED <<projects, testimonials, users, tokens, pending>>

(* register and updateProfile as the server runs them: each awaits its    *)
(* lookups, and the requests that arrive meanwhile run before its write   *)

\* requests that have passed their lookups and not yet written
MaxPending == 2

Request(op, t, id, username, email, password) ==
  [op |-> op, t |-> t, id |-> id, username |-> username, email |-> email,
   password |-> password]

BeginRegister(body) ==
  /\ Cardinality(pending) < MaxPending
  /\ ~RegisterConflict(users, body)
  /\ pending' = pending \cup
       {Request("register", NoToken, 0, body.username, body.email, body.password)}
  /\ UNCHANGED <<projects, testimonials, users, tokens, clock, resp>>

FinishRegister(req) ==
  /\ req.op = "register"
  /\ RegisterCreate([username |-> req.username, email |-> req.email,
                     password |-> req.password])
  /\ pending' = pending \ {req}
  /\ UNCHANGED <<projects, testimonials>>

RefuseRegister(body) ==
  /\ RegisterRefuse(body)
  /\ UNCHANGED <<projects, testimonials, pending>>

BeginUpdateProfile(t, body) ==
  /\ Cardinality(pending) < MaxPending
  /\ Authenticated(t)
  /\ Exists(users, t.id)
  /\ ~ProfileConflict(users, t.id, body)
  /\ LET set == ProfileChanges(users[t.id], body)
     IN pending' = pending \cup
          {Request("updateProfile", t, t.id, set.username, set.email, NoVal)}
  /\ UNCHANGED <<projects, testimonials, users, tokens, clock, resp>>

FinishUpdateProfile(req) ==
  /\ req.op = "updateProfile"
  /\ ProfileSave(req.t, req.id, [username |-> req.username, email |-> req.email])
  /\ pending' = pending \ {req}
  /\ UNCHANGED <<projects, testimonials>>

RefuseUpdateProfile(t, body) ==
  /\ ProfileRefuse(t, body)
  /\ UNCHANGED <<projects, testimonials, pending>>

----------------------------------------------------------------------------
(* Requests: routes/auth.js (project router), routes/testimonials.js *)

\* a fresh database
Init ==
  /\ projects = <<>>
  /\ testimonials = <<>>
  /\ users = <<>>
  /\ tokens = <<>>
  /\ pending = {}
  /\ clock = StartTime
  /\ resp = NoResponse

\* the documents a year, technology, company or search filter lets through:
\* all of them, or all but the oldest (the first of a seeded database, or
\* the first one created)
Matches(coll) == {DOMAIN coll, DOMAIN coll \ {1, StartTime + 1}}

ProjectReads ==
  \/ \E st \in {NoVal, "draft"}, f \in {NoVal, "true"}, m \in Matches(projects) :
       getProjects(NoUser, st, f, m, NoVal, NoVal)
  \/ \E id \in ReqIds(projects) : getProject(NoUser, id)
  \/ getFeaturedProjects
  \/ \E m \in Matches(projects) : getProjectsByYear(m, NoVal, NoVal)
  \/ \E m \in Matches(projects) : getProjectsByTechnology(m, NoVal, NoVal)

ProjectWrites ==
  \/ \E body \in ProjectBodies : createProject(body)
  \/ \E id \in ReqIds(projects), body \in ProjectBodies : updateProject(id, body)
  \/ \E id \in ReqIds(projects), f \in OptBool : Project_toggleFeatured(id, f)
  \/ \E id \in ReqIds(projects) : deleteProject(id)

TestimonialReads ==
  \/ \E id \in ReqIds(testimonials) : getTestimonial(NoUser, id)
  \/ getFeaturedTestimonials
  \/ \E r \in RatingParams : getTestimonialsByRating(r, NoVal, NoVal)
  \/ \E m \in Matches(testimonials) : getTestimonialsByCompany(m, NoVal, NoVal)

TestimonialAdminReads ==
  \E st \in {NoVal, "pending"}, f \in {NoVal, "true"}, r \in {NoVal, "abc", "5", "6"},
     m \in Matches(testimonials) :
       getTestimonials(AdminUser, st, f, r, m, NoVal, NoVal)

\* the admin requests that write testimonials, over the ids and bodies given
TestimonialWritesOn(ids, bodies) ==
  \/ \E body \in bodies : createTestimonial(body)
  \/ \E id \in ids, body \in bodies : updateTestimonial(id, body)
  \/ \E id \in ids, b \in BOOLEAN : Testimonial_toggleFeatured(id, b)
  \/ \E id \in ids, f \in OptBool, b \in BOOLEAN : Testimonial_setFeatured(id, f, b)
  \/ \E id \in ids, b \in BOOLEAN : approveTestimonial(id, b)
  \/ \E id \in ids, b \in BOOLEAN : rejectTestimonial(id, b)
  \/ \E id \in ids, b \in BOOLEAN : verifyTestimonial(id, b)
  \/ \E id \in ids : deleteTestimonial(id)

TestimonialWrites == TestimonialWritesOn(ReqIds(testimonials), TestimonialBodies)

Protected ==
  \E cred \in Creds, op \in {"createProject", "updateProject", "deleteProject", "toggleFeatured",
                             "getTestimonials", "createTestimonial", "updateTestimonial",
                             "deleteTestimonial", "toggleFeaturedTestimonial",
                             "approveTestimonial"} : Refuse(op, cred)

\* the testimonial bodies that leave verification to verifyTestimonial
ContentBodies == {body \in TestimonialBodies : body.verified = NoVal}

\* the public reads and the admin writes of projects and testimonials
NextContent ==
  \/ ProjectReads
  \/ ProjectWrites
  \/ TestimonialReads
  \/ TestimonialWritesOn(ReqIds(testimonials), ContentBodies)

SpecContent == Init /\ [][NextContent]_vars

AuthPublic ==
  \/ \E raw \in RawEmails, u \in Usernames, p \in Passwords :
       register([username |-> u, email |-> normalizeEmail(raw), password |-> p])
  \/ \E raw \in RawEmails, p \in Passwords :
       login([email |-> normalizeEmail(raw), password |-> p])
  \/ \E t \in Bearers : verifyToken(t)

AuthPrivate ==
  \/ \E t \in Bearers : getProfile(t)
  \/ \E t \in Bearers, body \in ProfileBodies : updateProfile(t, body)
  \/ \E t \in Bearers, body \in PasswordBodies : changePassword(t, body)
  \/ \E t \in Bearers : logout(t)
  \/ \E t \in Bearers, op \in {"getProfile", "updateProfile", "changePassword", "logout"} :
       AuthRefuse(op, t)

Environment ==
  \/ \E id \in DOMAIN users : deactivateUser(id)
  \/ \E id \in DOMAIN users : removeUser(id)
  \/ Tick

\* the public auth routes, while operators and time act on the store
NextAuth == AuthPublic \/ Environment

SpecAuth == Init /\ [][NextAuth]_vars

\* the same with the private auth routes
NextAccount == NextAuth \/ AuthPrivate

SpecAccount == Init /\ [][NextAccount]_vars

NextAuthRace ==
  \/ \E body \in RegisterBodies : BeginRegister(body)
  \/ \E body \in RegisterBodies : RefuseRegister(body)
  \/ \E req \in pending : FinishRegister(req)
  \/ \E t \in DOMAIN tokens, body \in ProfileBodies : BeginUpdateProfile(t, body)
  \/ \E t \in DOMAIN tokens, body \in ProfileBodies : RefuseUpdateProfile(t, body)
  \/ \E req \in pending : FinishUpdateProfile(req)

SpecAuthRace == Init /\ [][NextAuthRace]_vars

Next == NextContent \/ TestimonialAdminReads \/ Protected \/ NextAccount \/ NextAuthRace

Spec == Init /\ [][Next]_vars

----------------------------------------------------------------------------
(* The project collection alone, over a database that holds at most one *)
(* project when the server starts                                        *)

InitProjects ==
  /\ projects \in {<<>>} \cup {(1 :> NewProject(body)) : body \in ProjectBodies}
  /\ testimonials = <<>>
  /\ users = <<>>
  /\ tokens = <<>>
  /\ pending = {}
  /\ clock = StartTime
  /\ resp = NoResponse

NextProjects == ProjectReads \/ ProjectWrites

SpecProjects == InitProjects /\ [][NextProjects]_vars

----------------------------------------------------------------------------
(* The testimonial collection alone *)

NextTestimonials == TestimonialReads \/ TestimonialWrites

SpecTestimonials == Init /\ [][NextTestimonials]_vars

\* the reads that take a rating, over testimonials created with a rating and
\* approved or pending
RatedBodies ==
  {body \in TestimonialBodies : body.featured = NoVal /\ body.verified = NoVal}

NextRatings ==
  \/ TestimonialReads
  \/ TestimonialAdminReads
  \/ \E body \in RatedBodies : createTestimonial(body)

SpecRatings == Init /\ [][NextRatings]_vars

----------------------------------------------------------------------------
(* The testimonial collection at the featured cap: a database that holds   *)
(* MaxFeatured or MaxFeatured + 1 testimonials, up to MaxFeatured of them  *)
(* featured, as that many create requests leave it                         *)

\* when each initial testimonial was last updated: in creation order, in the
\* reverse order, or two by two in the same millisecond
SeedStamps ==
  {[i \in 1..StartTime |-> i],
   [i \in 1..StartTime |-> StartTime + 1 - i],
   [i \in 1..StartTime |-> (i + 1) \div 2]}

SeedFeatured == {1..MaxFeatured, 1..(MaxFeatured - 1)}

SeedTestimonials(n, featured, stamp) ==
  [i \in 1..n |-> [status    |-> "approved",
                   featured  |-> i \in featured,
                   rating    |-> 5,
                   verified  |-> FALSE,
                   updatedAt |-> stamp[i]]]

InitCap ==
  /\ projects = <<>>
  /\ users = <<>>
  /\ tokens = <<>>
  /\ pending = {}
  /\ clock = StartTime
  /\ resp = NoResponse
  /\ \E n \in {MaxFeatured, MaxFeatured + 1}, f \in SeedFeatured, st \in SeedStamps :
       testimonials = SeedTestimonials(n, f, st)

\* the documents the requests at the cap name: the two oldest and the newest
\* of the initial ones, the unfeatured one, and those created since
CapIds == (DOMAIN testimonials \cap {1, 2, MaxFeatured}) \cup
          {i \in DOMAIN testimonials : i > MaxFeatured}

CapBodies == {body \in TestimonialBodies : body.rating = 5 /\ body.status = NoVal}

NextCap == TestimonialWritesOn(CapIds, CapBodies)

SpecCap == InitCap /\ [][NextCap]_vars

----------------------------------------------------------------------------
(* The protected routes with their guards: a request first passes          *)
(* authenticateToken and requireAdmin, then its handler runs               *)

\* the handlers behind authenticateToken, requireAdmin
MutationOps ==
  {"createProject", "updateProject", "deleteProject", "toggleFeatured",
   "createTestimonial", "updateTestimonial", "deleteTestimonial",
   "toggleFeaturedTestimonial", "setFeaturedTestimonial", "approveTestimonial",
   "rejectTestimonial", "verifyTestimonial"}

\* variant: DELETE /api/testimonials/:id is routed without its guards
GuardedWrites_OpenDelete ==
  \/ Admitted("createProject") /\ \E body \in ProjectBodies : createProject(body)
  \/ Admitted("createTestimonial") /\ \E body \in ContentBodies : createTestimonial(body)
  \/ \E id \in ReqIds(testimonials) : deleteTestimonial(id)

\* router.post/put/patch/delete(path, authenticateToken, requireAdmin, handler)
GuardedWrites ==
  \/ Admitted("createProject") /\ \E body \in ProjectBodies : createProject(body)
  \/ Admitted("updateProject") /\
       \E id \in ReqIds(projects), body \in ProjectBodies : updateProject(id, body)
  \/ Admitted("toggleFeatured") /\
       \E id \in ReqIds(projects), f \in OptBool : Project_toggleFeatured(id, f)
  \/ Admitted("deleteProject") /\ \E id \in ReqIds(projects) : deleteProject(id)
  \/ Admitted("createTestimonial") /\ \E body \in ContentBodies : createTestimonial(body)
  \/ Admitted("updateTestimonial") /\
       \E id \in ReqIds(testimonials), body \in ContentBodies : updateTestimonial(id, body)
  \/ Admitted("toggleFeaturedTestimonial") /\
       \E id \in ReqIds(testimonials), b \in BOOLEAN : Testimonial_toggleFeatured(id, b)
  \/ Admitted("setFeaturedTestimonial") /\
       \E id \in ReqIds(testimonials), f \in OptBool, b \in BOOLEAN :
         Testimonial_setFeatured(id, f, b)
  \/ Admitted("approveTestimonial") /\
       \E id \in ReqIds(testimonials), b \in BOOLEAN : approveTestimonial(id, b)
  \/ Admitted("rejectTestimonial") /\
       \E id \in ReqIds(testimonials), b \in BOOLEAN : rejectTestimonial(id, b)
  \/ Admitted("verifyTestimonial") /\
       \E id \in ReqIds(testimonials), b \in BOOLEAN : verifyTestimonial(id, b)
  \/ Admitted("deleteTestimonial") /\ \E id \in ReqIds(testimonials) : deleteTestimonial(id)

Guards ==
  \/ \E cred \in Creds, op \in MutationOps : Refuse(op, cred)
  \/ \E cred \in Creds, op \in MutationOps : Admit(op, cred)

NextGuard == Guards \/ GuardedWrites

SpecGuard == Init /\ [][NextGuard]_vars

----------------------------------------------------------------------------
(* The listing endpoints with their page and limit parameters, over a      *)
(* database that holds SeedSize projects and SeedSize testimonials when    *)
(* the server starts                                                       *)

SeedSize == 3

SeedProjects(statuses) ==
  [i \in 1..SeedSize |-> NewProject([status |-> statuses[i], featured |-> NoVal])]

SeedRated(ratings) ==
  [i \in 1..SeedSize |->
     NewTestimonial([rating |-> ratings[i], featured |-> NoVal, verified |-> NoVal,
                     status |-> NoVal], i)]

\* all initial projects published, or all but the second
SeedStatuses ==
  {[i \in 1..SeedSize |-> "published"],
   [i \in 1..SeedSize |-> IF i = 2 THEN "draft" ELSE "published"]}

InitListing ==
  /\ projects \in {SeedProjects(st) : st \in SeedStatuses}
  /\ testimonials = SeedRated([i \in 1..SeedSize |-> IF i = 2 THEN 4 ELSE 5])
  /\ users = <<>>
  /\ tokens = <<>>
  /\ pending = {}
  /\ clock = StartTime
  /\ resp = NoResponse

ListingReads ==
  \/ \E m \in Matches(projects), pg \in PageParams, lm \in PageParams :
       getProjects(NoUser, NoVal, NoVal, m, pg, lm)
  \/ \E m \in Matches(projects), pg \in PageParams, lm \in PageParams :
       getProjectsByYear(m, pg, lm)
  \/ \E pg \in PageParams, lm \in PageParams :
       getProjectsByTechnology(DOMAIN projects, pg, lm)
  \/ \E r \in {NoVal, "5"}, pg \in PageParams, lm \in PageParams :
       getTestimonials(AdminUser, NoVal, NoVal, r, DOMAIN testimonials, pg, lm)
  \/ \E r \in {"4", "5"}, pg \in PageParams, lm \in PageParams :
       getTestimonialsByRating(r, pg, lm)
  \/ \E m \in Matches(testimonials), pg \in PageParams, lm \in PageParams :
       getTestimonialsByCompany(m, pg, lm)

ListingWrites ==
  \/ createProject([status |-> NoVal, featured |-> NoVal])
  \/ createTestimonial([rating |-> 5, featured |-> NoVal, verified |-> NoVal, status |-> NoVal])

NextListing == ListingReads \/ ListingWrites

SpecListing == InitListing /\ [][NextListing]_vars

----------------------------------------------------------------------------
(* The routes whose responses carry users: the auth routes, the user        *)
(* listing, and a project read with its creator and updater populated.     *)
(* The project documents of this model do not store createdBy and          *)
(* updatedBy: a read takes them as any two references, to a stored user or *)
(* to none.                                                                *)

\* .populate(path, 'username email'): the two selected fields of the user the
\* reference points to, nothing when there is no such user
populate(us, ref) ==
  IF ref \in DOMAIN us
  THEN {[username |-> us[ref].username, email |-> us[ref].email]}
  ELSE {}

\* GET /api/projects/:id, with the populated references in its response
getProjectPopulated(user, id, creator, updater) ==
  LET refs == [createdBy |-> populate(users, creator), updatedBy |-> populate(users, updater)]
  IN IF ~Exists(projects, id) \/ ProjectHidden(user, projects[id])
     THEN /\ resp' = Response("getProjectPopulated", user, 404, id, {})
          /\ UNCHANGED <<projects, testimonials, users, tokens, pending, clock>>
     ELSE IF projects[id].status = "published"
     THEN /\ CanWrite
          /\ clock' = clock + 1
          /\ projects' = Put(projects, id, incrementViews(projects[id]))
          /\ resp' = Response("getProjectPopulated", user, 200, id, Docs(projects, {id})) @@ refs
          /\ UNCHANGED <<testimonials, users, tokens, pending>>
     ELSE /\ resp' = Response("getProjectPopulated", user, 200, id, Docs(projects, {id})) @@ refs
          /\ UNCHANGED <<projects, testimonials, users, tokens, pending, clock>>

UserReads ==
  \/ \E t \in Bearers, m \in {DOMAIN users, DOMAIN users \ {StartTime + 1}},
        pg \in {NoVal, "2", "abc"} :
       getUsers(t, m, pg, NoVal)
  \/ \E t \in Bearers : AuthRefuse("getUsers", t)
  \/ \E id \in ReqIds(projects), c \in ReqIds(users), u \in ReqIds(users) :
       getProjectPopulated(NoUser, id, c, u)
  \/ createProject([status |-> NoVal, featured |-> NoVal])

UserWrites ==
  \/ \E raw \in RawEmails, u \in Usernames, p \in Passwords :
       register([username |-> u, email |-> normalizeEmail(raw), password |-> p])
  \/ \E raw \in RawEmails, p \in Passwords :
       login([email |-> normalizeEmail(raw), password |-> p])
  \/ \E t \in Bearers : verifyToken(t)
  \/ \E t \in Bearers : getProfile(t)
  \/ \E t \in Bearers, body \in ProfileBodies : updateProfile(t, body)

NextPrivacy == UserWrites \/ UserReads

SpecPrivacy == Init /\ [][NextPrivacy]_vars

----------------------------------------------------------------------------
(* Testimonial.create as the server runs it at the featured cap: the       *)
(* insert, then the post-save hook, which awaits its count, its findOne    *)
(* and the save of the document it evicts; the steps of other requests run *)
(* in between.  pending holds the hooks that have not finished.            *)

\* a post-save hook in progress: the document it runs for, the step it is
\* at, and the document its findOne returned
Hook(id, body, featured, pc, victim) ==
  [id |-> id, body |-> body, featured |-> featured, pc |-> pc, victim |-> victim]

\* the hook is over and create resolves: the handler answers 201
FinishCreate(h) ==
  /\ pending' = pending \ {h}
  /\ resp' = Response("createTestimonial", h.body, 201, h.id, {<<h.id, testimonials[h.id].status>>})

\* pre('save') and the insert
InsertTestimonial(body) ==
  LET now == clock + 1
      doc == PreSave(NewTestimonial(body, now), TRUE)
  IN /\ CanWrite
     /\ Cardinality(pending) < MaxPending
     /\ clock' = now
     /\ testimonials' = Put(testimonials, now, doc)
     /\ pending' = pending \cup {Hook(now, body, doc.featured, "count", MissingId)}
     /\ resp' = NoResponse
     /\ UNCHANGED <<projects, users, tokens>>

\* post('save'): `if (doc.featured)` and countDocuments
CountFeatured(h) ==
  LET others == {i \in DOMAIN testimonials \ {h.id} : testimonials[i].featured}
  IN /\ h.pc = "count"
     /\ IF h.featured /\ EvictionNeeded(Cardinality(others))
        THEN /\ pending' = (pending \ {h}) \cup {[h EXCEPT !.pc = "find"]}
             /\ resp' = NoResponse
        ELSE FinishCreate(h)
     /\ UNCHANGED <<projects, testimonials, users, tokens, clock>>

\* post('save'): findOne(...).sort({ updatedAt: 1 })
FindOldest(h) ==
  LET others == {i \in DOMAIN testimonials \ {h.id} : testimonials[i].featured}
  IN /\ h.pc = "find"
     /\ IF OldestFeatured(testimonials, others) = {}
        THEN FinishCreate(h)
        ELSE \E o \in OldestFeatured(testimonials, others) :
               /\ pending' = (pending \ {h}) \cup {[h EXCEPT !.pc = "evict", !.victim = o]}
               /\ resp' = NoResponse
     /\ UNCHANGED <<projects, testimonials, users, tokens, clock>>

\* post('save'): oldestFeatured.featured = false; oldestFeatured.save()
EvictOldest(h) ==
  /\ h.pc = "evict"
  /\ testimonials' = Put(testimonials, h.victim,
                         [testimonials[h.victim] EXCEPT !.featured = FALSE, !.updatedAt = clock])
  /\ pending' = pending \ {h}
  /\ resp' = Response("createTestimonial", h.body, 201, h.id, {<<h.id, testimonials[h.id].status>>})
  /\ UNCHANGED <<projects, users, tokens, clock>>

RaceBodies == {body \in CapBodies : body.verified = NoVal}

NextCapRace ==
  \/ \E body \in RaceBodies : InsertTestimonial(body)
  \/ \E h \in pending : CountFeatured(h)
  \/ \E h \in pending : FindOldest(h)
  \/ \E h \in pending : EvictOldest(h)

SpecCapRace == InitCap /\ [][NextCapRace]_vars

----------------------------------------------------------------------------
(* getProject as the server runs it: findById loads the document, and      *)
(* incrementViews saves the count it computed from the loaded one; the     *)
(* steps of other requests run in between.  pending holds the requests     *)
(* that have loaded and not yet saved.  Every save takes one tick of the   *)
(* clock, and nothing else does here.  The database holds SeedSize         *)
(* projects, none of them viewed, when the server starts.                  *)

\* a getProject request between its findById and its save: n tells the
\* requests in flight apart
Fetch(n, user, id, doc) == [n |-> n, user |-> user, id |-> id, doc |-> doc]

\* findById and the status check
LoadProject(user, id) ==
  IF ~Exists(projects, id) \/ ProjectHidden(user, projects[id])
  THEN /\ resp' = Response("getProject", user, 404, id, {})
       /\ UNCHANGED <<projects, testimonials, users, tokens, pending, clock>>
  ELSE IF projects[id].status = "published"
  THEN /\ Cardinality(pending) < MaxPending
       /\ clock + Cardinality(pending) < MaxClock
       /\ \E n \in 1..MaxPending :
            /\ \A r \in pending : r.n # n
            /\ \A m \in 1..(n - 1) : \E r \in pending : r.n = m
            /\ pending' = pending \cup {Fetch(n, user, id, projects[id])}
       /\ resp' = NoResponse
       /\ UNCHANGED <<projects, testimonials, users, tokens, clock>>
  ELSE /\ resp' = Response("getProject", user, 200, id, Docs(projects, {id}))
       /\ UNCHANGED <<projects, testimonials, users, tokens, pending, clock>>

\* project.incrementViews(): this.viewCount = (this.viewCount || 0) + 1 on
\* the loaded document, and save(), which writes the modified path
SaveViews(req) ==
  /\ Exists(projects, req.id)
  /\ clock' = clock + 1
  /\ projects' = Put(projects, req.id,
                     [projects[req.id] EXCEPT !.viewCount = incrementViews(req.doc).viewCount])
  /\ pending' = pending \ {req}
  /\ resp' = Response("getProject", req.user, 200, req.id, Docs(projects, {req.id}))
  /\ UNCHANGED <<testimonials, users, tokens>>

NextViewRace ==
  \/ \E id \in ReqIds(projects) : LoadProject(NoUser, id)
  \/ \E req \in pending : SaveViews(req)

SpecViewRace == InitListing /\ [][NextViewRace]_vars

----------------------------------------------------------------------------
(* The reads with the credentials their requests carry.  The project GET   *)
(* routes and GET /api/testimonials/:id are registered without             *)
(* authenticateToken: the handler runs for any credential and req.user is  *)
(* undefined.  GET /api/testimonials passes authenticateToken and          *)
(* requireAdmin first.                                                     *)

\* a public route: the request goes to its handler whatever it carries
Pass(op, cred) ==
  /\ resp' = Response(op, cred, 0, 0, {})
  /\ UNCHANGED <<projects, testimonials, users, tokens, pending, clock>>

PublicReadOps == {"getProjects", "getProject", "getTestimonial"}

CredentialReads ==
  \/ \E cred \in Creds, op \in PublicReadOps : Pass(op, cred)
  \/ \E cred \in Creds : Admit("getTestimonials", cred)
  \/ \E cred \in Creds : Refuse("getTestimonials", cred)
  \/ Admitted("getProjects") /\ \E st \in {NoVal, "draft"} :
       getProjects(NoUser, st, NoVal, DOMAIN projects, NoVal, NoVal)
  \/ Admitted("getProject") /\ \E id \in ReqIds(projects) : getProject(NoUser, id)
  \/ Admitted("getTestimonials") /\ \E st \in {NoVal, "pending"} :
       getTestimonials(AdminUser, st, NoVal, NoVal, DOMAIN testimonials, NoVal, NoVal)
  \/ Admitted("getTestimonial") /\ \E id \in ReqIds(testimonials) : getTestimonial(NoUser, id)

CredentialWrites ==
  \/ \E st \in {NoVal, "draft"} : createProject([status |-> st, featured |-> NoVal])
  \/ \E st \in {NoVal, "pending"} :
       createTestimonial([rating |-> 5, featured |-> NoVal, verified |-> NoVal, status |-> st])

NextCredentials == CredentialReads \/ CredentialWrites

SpecCredentials == Init /\ [][NextCredentials]_vars

----------------------------------------------------------------------------
(* Statistics: Project.getStats and getProjectStats, Testimonial.getStats  *)
(* and the two versions of getTestimonialStats.  An aggregation result is  *)
(* an array of group documents; a group by null over no document is the    *)
(* empty array.  An average is the pair of its sum and its count.          *)

\* { $sum: <field> } over the documents S, vals giving the field of each
RECURSIVE Sum(_, _)
Sum(vals, S) ==
  IF S = {} THEN 0
  ELSE LET i == CHOOSE j \in S : TRUE
       IN vals[i] + Sum(vals, S \ {i})

\* { $group: { _id: <key>, count: { $sum: 1 } } } over the documents S
Distribution(keys, S) ==
  {<<k, Cardinality({i \in S : keys[i] = k})>> : k \in {keys[i] : i \in S}}

\* spreading the first element of an aggregation result into an object:
\* `...stats[0]` adds no field when the array is empty
SpreadFirst(arr) == IF Len(arr) = 0 THEN [f \in {} |-> 0] ELSE arr[1]

\* projectSchema.statics.getStats
Project_getStats(ps) ==
  IF DOMAIN ps = {} THEN <<>>
  ELSE <<[total      |-> Cardinality(DOMAIN ps),
          featured   |-> Cardinality({i \in DOMAIN ps : ps[i].featured}),
          published  |-> Cardinality({i \in DOMAIN ps : ps[i].status = "published"}),
          draft      |-> Cardinality({i \in DOMAIN ps : ps[i].status = "draft"}),
          totalViews |-> Sum([i \in DOMAIN ps |-> ps[i].viewCount], DOMAIN ps)]>>

\* GET /api/projects/statistics.  year and tech give the year and the
\* technology of each project, which the documents of this model do not
\* store.
getProjectStats(year, tech) ==
  LET published == {i \in DOMAIN projects : projects[i].status = "published"}
  IN /\ resp' = Response("getProjectStats", NoVal, 200, 0, {}) @@
                 [stats |-> SpreadFirst(Project_getStats(projects)) @@
                            [yearDistribution |-> Distribution(year, published),
                             techDistribution |-> Distribution(tech, published),
                             recent           |-> Docs(projects, PageOf(published, 0, 5))]]
     /\ UNCHANGED <<projects, testimonials, users, tokens, pending, clock>>

\* testimonialSchema.statics.getStats
Testimonial_getStats(ts) ==
  IF DOMAIN ts = {} THEN <<>>
  ELSE <<[total         |-> Cardinality(DOMAIN ts),
          featured      |-> Cardinality({i \in DOMAIN ts : ts[i].featured}),
          approved      |-> Cardinality({i \in DOMAIN ts : ts[i].status = "approved"}),
          pending       |-> Cardinality({i \in DOMAIN ts : ts[i].status = "pending"}),
          averageRating |-> [sum   |-> Sum([i \in DOMAIN ts |-> ts[i].rating], DOMAIN ts),
                             count |-> Cardinality(DOMAIN ts)]]>>

\* GET /api/testimonials/statistics, controllers/testimonialController.js
getTestimonialStats ==
  LET approved == {i \in DOMAIN testimonials : testimonials[i].status = "approved"}
      waiting  == {i \in DOMAIN testimonials : testimonials[i].status = "pending"}
  IN /\ resp' = Response("getTestimonialStats", NoVal, 200, 0, {}) @@
                 [stats |-> SpreadFirst(Testimonial_getStats(testimonials)) @@
                            [ratingDistribution |->
                               Distribution([i \in DOMAIN testimonials |-> testimonials[i].rating],
                                            approved),
                             recent       |-> Docs(testimonials, PageOf(approved, 0, 5)),
                             pendingCount |-> Cardinality(waiting)]]
     /\ UNCHANGED <<projects, testimonials, users, tokens, pending, clock>>

\* GET /api/testimonials/statistics, unnamed/part_000: one $facet
\* aggregation, and `result.totalStats[0] || { ...zeros }`
getTestimonialStatsFacet ==
  LET approved == {i \in DOMAIN testimonials : testimonials[i].status = "approved"}
      group    == Testimonial_getStats(testimonials)
      totals   == IF Len(group) = 0
                  THEN [total |-> 0, featured |-> 0, approved |-> 0, pending |-> 0,
                        averageRating |-> [sum |-> 0, count |-> 1]]
                  ELSE group[1]
  IN /\ resp' = Response("getTestimonialStatsFacet", NoVal, 200, 0, {}) @@
                 [stats |-> totals @@
                            [ratingDistribution |->
                               Distribution([i \in DOMAIN testimonials |-> testimonials[i].rating],
                                            DOMAIN testimonials),
                             recent |-> Docs(testimonials, PageOf(approved, 0, 5))]]
     /\ UNCHANGED <<projects, testimonials, users, tokens, pending, clock>>

Years == {2023, 2024}

NextStats ==
  \/ \E year \in [DOMAIN projects -> Years], tech \in [DOMAIN projects -> {"react", "node"}] :
       getProjectStats(year, tech)
  \/ getTestimonialStats
  \/ getTestimonialStatsFacet
  \/ \E body \in ProjectBodies : createProject(body)
  \/ \E id \in ReqIds(projects) : deleteProject(id)
  \/ \E body \in RatedBodies : createTestimonial(body)
  \/ \E id \in ReqIds(testimonials) : deleteTestimonial(id)

SpecStats == Init /\ [][NextStats]_vars

----------------------------------------------------------------------------
(* Testimonials created, then verified, or updated by a request whose body *)
(* does not name the featured flag                                          *)

NextUnfeaturing ==
  \/ \E body \in TestimonialBodies : createTestimonial(body)
  \/ \E id \in ReqIds(testimonials),
        body \in {b \in TestimonialBodies : b.featured = NoVal} :
       updateTestimonial(id, body)
  \/ \E id \in ReqIds(testimonials), b \in BOOLEAN : verifyTestimonial(id, b)

SpecUnfeaturing == Init /\ [][NextUnfeaturing]_vars

----------------------------------------------------------------------------
(* The password of an account: register, login and change-password *)

NextPassword ==
  \/ \E body \in RegisterBodies : register(body)
  \/ \E body \in LoginBodies : login(body)
  \/ \E t \in Bearers, body \in PasswordBodies : changePassword(t, body)
  \/ \E t \in Bearers : AuthRefuse("changePassword", t)

SpecPassword == Init /\ [][NextPassword]_vars

----------------------------------------------------------------------------
(* getProjects and getTestimonials as the server runs them: the handler    *)
(* awaits find(query), then countDocuments(query); create and delete       *)
(* requests run in between.  pending holds the listings that have their    *)
(* page and not yet their count.                                           *)

\* the documents that match the query of a listing now
Hits(op, user, query) ==
  IF op = "getProjects"
  THEN {i \in DOMAIN projects \cap query.match :
          /\ projects[i].status =
               ProjectQueryStatus(user, IF query.status = NoVal THEN "published" ELSE query.status)
          /\ query.featured # NoVal => projects[i].featured = IsTrue(query.featured)}
  ELSE {i \in DOMAIN testimonials \cap query.match :
          /\ testimonials[i].status =
               TestimonialQueryStatus(user, IF query.status = NoVal THEN "approved" ELSE query.status)
          /\ query.featured # NoVal => testimonials[i].featured = IsTrue(query.featured)
          /\ (query.rating # NoVal /\ ~isNaN(parseInt(query.rating)))
               => testimonials[i].rating >= parseInt(query.rating)}

\* await Model.find(query).sort(sort).limit(limit * 1).skip((page - 1) * limit)
FindPage(op, user, query) ==
  LET limit == LimitOf(query.limit)
      skip  == SkipOf(query.page, query.limit)
      hits  == Hits(op, user, query)
      page  == PageOf(hits, IF isNaN(skip) THEN 0 ELSE skip,
                      IF isNaN(limit) THEN Cardinality(hits) ELSE limit)
      found == Docs(IF op = "getProjects" THEN projects ELSE testimonials, page)
      n     == CHOOSE k \in 1..MaxPending : \A r \in pending : r.n # k
  IN /\ Cardinality(pending) < MaxPending
     /\ \E code \in IF isNaN(limit) \/ isNaN(skip) THEN BadPageCodes ELSE {200} :
          IF code = 200
          THEN /\ pending' = pending \cup
                    {[n |-> n, op |-> op, user |-> user, query |-> query, found |-> found]}
               /\ resp' = NoResponse
          ELSE /\ pending' = pending
               /\ resp' = Response(op, user, code, 0, {}) @@ [query |-> query]
     /\ UNCHANGED <<projects, testimonials, users, tokens, clock>>

\* await Model.countDocuments(query), and res.json
CountTotal(req) ==
  /\ pending' = pending \ {req}
  /\ resp' = Listing(req.op, req.user, req.query, req.found,
                     Pagination(Cardinality(Hits(req.op, req.user, req.query)),
                                req.query.page, req.query.limit))
  /\ UNCHANGED <<projects, testimonials, users, tokens, clock>>

\* every _id a document can have
AllIds == 1..MaxClock

NextListRace ==
  \/ \E lm \in {NoVal, "1"} :
       FindPage("getProjects", NoUser,
                [status |-> NoVal, featured |-> NoVal, match |-> AllIds, page |-> NoVal,
                 limit |-> lm])
  \/ \E lm \in {NoVal, "1"} :
       FindPage("getTestimonials", AdminUser,
                [status |-> NoVal, featured |-> NoVal, rating |-> NoVal, match |-> AllIds,
                 page |-> NoVal, limit |-> lm])
  \/ \E req \in pending : CountTotal(req)
  \/ createProject([status |-> NoVal, featured |-> NoVal])
  \/ \E id \in ReqIds(projects) : deleteProject(id)
  \/ createTestimonial([rating |-> 5, featured |-> NoVal, verified |-> NoVal, status |-> NoVal])
  \/ \E id \in ReqIds(testimonials) : deleteTestimonial(id)

SpecListRace == InitListing /\ [][NextListRace]_vars

----------------------------------------------------------------------------
(* The life of a token: issued by register or login, verified, logged out, *)
(* while time passes and accounts are deactivated                          *)

NextSession ==
  \/ \E body \in RegisterBodies : register(body)
  \/ \E body \in LoginBodies : login(body)
  \/ \E t \in Bearers : verifyToken(t)
  \/ \E t \in Bearers : logout(t)
  \/ \E t \in Bearers : AuthRefuse("logout", t)
  \/ \E id \in DOMAIN users : deactivateUser(id)
  \/ Tick

SpecSession == Init /\ [][NextSession]_vars

----------------------------------------------------------------------------
(* Duplicating a project.  The documents of this specification carry their *)
(* title, which the copy extends and the schema bounds.                     *)

\* projectSchema title: maxlength 200
TitleMaxLength == 200

\* projectSchema title: minlength 2
TitleMinLength == 2

\* the suffix of `${originalProject.title} (Copy)`
CopySuffix == " (Copy)"

RECURSIVE Repeat(_, _)
Repeat(s, n) == IF n = 0 THEN "" ELSE s \o Repeat(s, n - 1)

\* a short title, and one of exactly 200 characters: both pass validateProject
\* and the schema
Titles == {"Shop", Repeat("abcdefghij", 20)}

\* the schema's validators of title, run by Project.create
ValidTitle(title) == Len(title) >= TitleMinLength /\ Len(title) <= TitleMaxLength

\* a failed schema validation is answered as a validation error
ValidationErrorCode == 400

\* duplicatedData, after the schema defaults: status and featured are fixed,
\* viewCount is not copied and defaults to 0
duplicatedData(originalProject) ==
  [status    |-> "draft",
   featured  |-> FALSE,
   viewCount |-> 0,
   title     |-> originalProject.title \o CopySuffix]

\* POST /api/projects/:id/duplicate
duplicateProject(id) ==
  IF ~Exists(projects, id)
  THEN /\ resp' = Response("duplicateProject", id, 404, 0, {})
       /\ UNCHANGED <<projects, testimonials, users, tokens, pending, clock>>
  ELSE IF ~ValidTitle(duplicatedData(projects[id]).title)
  THEN /\ resp' = Response("duplicateProject", id, ValidationErrorCode, 0, {})
       /\ UNCHANGED <<projects, testimonials, users, tokens, pending, clock>>
  ELSE /\ CanWrite
       /\ clock' = clock + 1
       /\ projects' = Put(projects, clock + 1, duplicatedData(projects[id]))
       /\ resp' = Response("duplicateProject", id, 201, clock + 1, {<<clock + 1, "draft">>})
       /\ UNCHANGED <<testimonials, users, tokens, pending>>

\* the number of projects stored at the start
TitledSize == 2

\* stored projects of every status and featured flag, viewed once
InitDuplicate ==
  /\ projects \in [1..TitledSize -> [status : ProjectStatuses, featured : BOOLEAN,
                                     viewCount : {1}, title : Titles]]
  /\ testimonials = <<>>
  /\ users = <<>>
  /\ tokens = <<>>
  /\ pending = {}
  /\ clock = StartTime
  /\ resp = NoResponse

NextDuplicate ==
  \/ \E id \in 1..MaxClock : duplicateProject(id)
  \/ \E id \in 1..MaxClock : getProject(NoUser, id)

SpecDuplicate == InitDuplicate /\ [][NextDuplicate]_vars

----------------------------------------------------------------------------
(* The JSON file DataStore.  In this specification projects, testimonials   *)
(* and users hold the arrays of the three files, in file order; a record    *)
(* keeps its id, one field of content and updatedAt.                        *)

\* uuidv4(): an identifier that no record carries yet
uuidv4 == clock + 1

\* new Date().toISOString() of a write
WriteStamp == clock + 1

\* the arrays written by initializeDataFiles: two projects, two testimonials
\* and the admin user, each under an identifier of its own
InitDataStore ==
  /\ projects = <<[id |-> 1, featured |-> TRUE, updatedAt |-> StartTime],
                  [id |-> 2, featured |-> FALSE, updatedAt |-> StartTime]>>
  /\ testimonials = <<[id |-> 3, featured |-> TRUE, updatedAt |-> StartTime],
                      [id |-> 4, featured |-> TRUE, updatedAt |-> StartTime]>>
  /\ users = <<[id |-> 5, featured |-> FALSE, updatedAt |-> StartTime]>>
  /\ tokens = <<>>
  /\ pending = {}
  /\ clock = StartTime
  /\ resp = NoResponse

\* the identifiers in an array
IdsOf(file) == {file[i].id : i \in DOMAIN file}

\* a field the object does not have (written 0 where the field is an id)
Absent(v) == v = 0

\* the objects a caller passes to add and update: the id field is absent or
\* names a record of the array
FileRecords(file) == [id : {0} \cup IdsOf(file), featured : BOOLEAN]

\* { id: uuidv4(), ...record, createdAt, updatedAt }: a field of the argument
\* replaces the one written before the spread
SpreadNew(record) ==
  [id        |-> IF Absent(record.id) THEN uuidv4 ELSE record.id,
   featured  |-> record.featured,
   updatedAt |-> WriteStamp]

\* { ...stored, ...updates, updatedAt }
SpreadUpdates(stored, updates) ==
  [id        |-> IF Absent(updates.id) THEN stored.id ELSE updates.id,
   featured  |-> updates.featured,
   updatedAt |-> WriteStamp]

\* findIndex(record => record.id === id): the first position, 0 for -1
findIndex(file, id) ==
  IF id \in IdsOf(file)
  THEN CHOOSE i \in DOMAIN file : file[i].id = id /\ \A j \in 1..(i - 1) : file[j].id # id
  ELSE 0

\* filter(record => record.id !== id)
FilterOut(file, id) == SelectSeq(file, LAMBDA record : record.id # id)

\* an answer of the store: the index is the position written, 0 for none
StoreAnswer(op, id, found, index) ==
  Response(op, id, IF found THEN 200 ELSE 404, index, {})

\* DataStore.addProject
DataStore_addProject(project) ==
  /\ CanWrite
  /\ clock' = clock + 1
  /\ projects' = Append(projects, SpreadNew(project))
  /\ resp' = StoreAnswer("DataStore.addProject", SpreadNew(project).id, TRUE, Len(projects) + 1)
  /\ UNCHANGED <<testimonials, users, tokens, pending>>

\* DataStore.updateProject
DataStore_updateProject(id, updates) ==
  LET index == findIndex(projects, id)
  IN IF index # 0
     THEN /\ CanWrite
          /\ clock' = clock + 1
          /\ projects' = [projects EXCEPT ![index] = SpreadUpdates(@, updates)]
          /\ resp' = StoreAnswer("DataStore.updateProject", id, TRUE, index)
          /\ UNCHANGED <<testimonials, users, tokens, pending>>
     ELSE /\ resp' = StoreAnswer("DataStore.updateProject", id, FALSE, 0)
          /\ UNCHANGED <<projects, testimonials, users, tokens, pending, clock>>

\* DataStore.deleteProject
DataStore_deleteProject(id) ==
  /\ projects' = FilterOut(projects, id)
  /\ resp' = StoreAnswer("DataStore.deleteProject", id, Len(FilterOut(projects, id)) # Len(projects), 0)
  /\ UNCHANGED <<testimonials, users, tokens, pending, clock>>

\* DataStore.addTestimonial
DataStore_addTestimonial(testimonial) ==
  /\ CanWrite
  /\ clock' = clock + 1
  /\ testimonials' = Append(testimonials, SpreadNew(testimonial))
  /\ resp' = StoreAnswer("DataStore.addTestimonial", SpreadNew(testimonial).id, TRUE,
                         Len(testimonials) + 1)
  /\ UNCHANGED <<projects, users, tokens, pending>>

\* DataStore.updateTestimonial
DataStore_updateTestimonial(id, updates) ==
  LET index == findIndex(testimonials, id)
  IN IF index # 0
     THEN /\ CanWrite
          /\ clock' = clock + 1
          /\ testimonials' = [testimonials EXCEPT ![index] = SpreadUpdates(@, updates)]
          /\ resp' = StoreAnswer("DataStore.updateTestimonial", id, TRUE, index)
          /\ UNCHANGED <<projects, users, tokens, pending>>
     ELSE /\ resp' = StoreAnswer("DataStore.updateTestimonial", id, FALSE, 0)
          /\ UNCHANGED <<projects, testimonials, users, tokens, pending, clock>>

\* DataStore.deleteTestimonial
DataStore_deleteTestimonial(id) ==
  /\ testimonials' = FilterOut(testimonials, id)
  /\ resp' = StoreAnswer("DataStore.deleteTestimonial", id,
                         Len(FilterOut(testimonials, id)) # Len(testimonials), 0)
  /\ UNCHANGED <<projects, users, tokens, pending, clock>>

\* DataStore.addUser
DataStore_addUser(user) ==
  /\ CanWrite
  /\ clock' = clock + 1
  /\ users' = Append(users, SpreadNew(user))
  /\ resp' = StoreAnswer("DataStore.addUser", SpreadNew(user).id, TRUE, Len(users) + 1)
  /\ UNCHANGED <<projects, testimonials, tokens, pending>>

\* the identifiers a caller asks for: those stored, and one that is not
StoreIds(file) == IdsOf(file) \cup {MaxClock + 1}

NextDataStore ==
  \/ \E project \in FileRecords(projects) : DataStore_addProject(project)
  \/ \E id \in StoreIds(projects), updates \in FileRecords(projects) :
       DataStore_updateProject(id, updates)
  \/ \E id \in StoreIds(projects) : DataStore_deleteProject(id)
  \/ \E testimonial \in FileRecords(testimonials) : DataStore_addTestimonial(testimonial)
  \/ \E id \in StoreIds(testimonials), updates \in FileRecords(testimonials) :
       DataStore_updateTestimonial(id, updates)
  \/ \E id \in StoreIds(testimonials) : DataStore_deleteTestimonial(id)
  \/ \E user \in FileRecords(users) : DataStore_addUser(user)

SpecDataStore == InitDataStore /\ [][NextDataStore]_vars

----------------------------------------------------------------------------
(* Properties *)

ProjectReadOps ==
  {"getProjects", "getProject", "getFeaturedProjects", "getProjectsByYear",
   "getProjectsByTechnology"}

TestimonialReadOps ==
  {"getTestimonials", "getTestimonial", "getFeaturedTestimonials",
   "getTestimonialsByRating", "getTestimonialsByCompany"}

Featured == {i \in DOMAIN testimonials : testimonials[i].featured}

\* C1: every record in the response to a read by a caller who is not an
\* admin has the public status: published for a project, approved for a
\* testimonial.
C1_NonAdminReadsArePublic ==
  /\ (resp.op \in ProjectReadOps /\ resp.arg # AdminUser)
       => \A r \in resp.recs : r[2] = "published"
  /\ (resp.op \in TestimonialReadOps /\ resp.arg # AdminUser)
       => \A r \in resp.recs : r[2] = "approved"

\* a public lookup answered with a record while a featured testimonial that
\* is not approved is in the store
C1_Witness ==
  /\ resp.op = "getFeaturedTestimonials"
  /\ resp.recs # {}
  /\ \E i \in DOMAIN testimonials :
       testimonials[i].featured /\ testimonials[i].status # "approved"

\* C2: at most MaxFeatured testimonials are featured, in every state that
\* admin testimonial requests executed one at a time reach.
C2_AtMostTenFeatured == Cardinality(Featured) <= MaxFeatured

\* the step is a createTestimonial request
IsCreateTestimonial == clock' = clock + 1 /\ resp'.op = "createTestimonial"

\* C3: when exactly MaxFeatured testimonials are featured and one more is
\* created featured, then after the request exactly MaxFeatured are featured,
\* the new one among them, and the one that lost the flag had the oldest
\* updatedAt of those featured before.
C3_EleventhEvictsOldest ==
  [][(/\ IsCreateTestimonial
      /\ Cardinality(Featured) = MaxFeatured
      /\ testimonials'[resp'.id].featured)
     => /\ Cardinality(Featured') = MaxFeatured
        /\ resp'.id \in Featured'
        /\ \E e \in Featured :
             /\ Featured' = (Featured \ {e}) \cup {resp'.id}
             /\ \A j \in Featured : testimonials[e].updatedAt <= testimonials[j].updatedAt]_vars

\* a create request has just evicted a testimonial: the new one is featured,
\* MaxFeatured are, and another one lost the flag in this very request
C3_Witness ==
  /\ resp.op = "createTestimonial"
  /\ resp.id \in Featured
  /\ Cardinality(Featured) = MaxFeatured
  /\ \E e \in DOMAIN testimonials \ Featured :
       e # resp.id /\ testimonials[e].updatedAt = resp.id

\* the testimonial a createTestimonial response reports, and what it asked
Created == testimonials[resp.id]
AskedFeatured == IsTrue(resp.arg.featured)
AskedVerified == IsTrue(resp.arg.verified)

\* C4 as stated: a testimonial created with rating 5 and verified is
\* featured; one created with rating 5 and not verified is not; a new
\* testimonial is auto-featured only if rating 5 and verified.
C4_AsStated ==
  resp.op = "createTestimonial" =>
    /\ (resp.arg.rating = 5 /\ AskedVerified) => Created.featured
    /\ (resp.arg.rating = 5 /\ ~AskedVerified) => ~Created.featured
    /\ (Created.featured /\ ~AskedFeatured) => (resp.arg.rating = 5 /\ AskedVerified)

\* C4 amended: a testimonial created with rating 5 and verified is featured;
\* one created with rating 5, not verified and without featured = true in
\* the request is not; a new testimonial that did not ask for featured is
\* featured only if rating 5 and verified.
C4_AutoFeature ==
  resp.op = "createTestimonial" =>
    /\ (resp.arg.rating = 5 /\ AskedVerified) => Created.featured
    /\ (resp.arg.rating = 5 /\ ~AskedVerified /\ ~AskedFeatured) => ~Created.featured
    /\ (Created.featured /\ ~AskedFeatured) => (resp.arg.rating = 5 /\ AskedVerified)

\* a testimonial was just created with rating 5 and verified, without asking
\* for featured, and is featured
C4_Witness ==
  /\ resp.op = "createTestimonial"
  /\ resp.arg.rating = 5 /\ AskedVerified /\ ~AskedFeatured
  /\ Created.featured

\* the step is a getProject request for project id
IsGetProject(id) == resp'.op = "getProject" /\ resp'.id = id

\* C5: a fetch of a published project adds exactly 1 to its viewCount and
\* changes no other project; a fetch of a project that is not published, by
\* a caller who is not an admin, returns 404 and changes no project.
C5_ViewCount ==
  [][\A id \in DOMAIN projects :
       IsGetProject(id) =>
         IF projects[id].status = "published"
         THEN /\ resp'.code = 200
              /\ projects'[id] = [projects[id] EXCEPT !.viewCount = @ + 1]
              /\ DOMAIN projects' = DOMAIN projects
              /\ \A o \in DOMAIN projects \ {id} : projects'[o] = projects[o]
         ELSE resp'.arg # AdminUser => (resp'.code = 404 /\ projects' = projects)]_vars

\* a published project was fetched and counted while the store holds a
\* second project that was never counted
C5_Witness ==
  /\ resp.op = "getProject" /\ resp.code = 200
  /\ projects[resp.id].viewCount = 1
  /\ \E o \in DOMAIN projects \ {resp.id} : projects[o].viewCount = 0

\* C6: two successive featured-toggle requests on a project, with no other
\* write in between, leave its featured flag as it was before the first.
C6_ToggleTwice ==
  [][(/\ resp.op = "toggleFeatured" /\ resp.code = 200
      /\ resp'.op = "toggleFeatured" /\ resp'.code = 200
      /\ resp'.id = resp.id
      /\ clock' = clock + 1)
     => projects'[resp.id].featured = resp.arg.before]_vars

\* the step is a register request that finds its email or its username taken
RegisterDuplicate ==
  /\ resp'.op = "register"
  /\ \E i \in DOMAIN users :
       users[i].email = resp'.arg.email \/ users[i].username = resp'.arg.username

\* C7: a register request whose email is that of an existing user, or
\* whose username is that of an existing user, returns 409 and creates no
\* user.
C7_DuplicateRegister ==
  [][RegisterDuplicate => (resp'.code = 409 /\ users' = users /\ tokens' = tokens)]_vars

\* a register request was refused for its email alone: its username is free
C7_Witness ==
  /\ resp.op = "register" /\ resp.code = 409
  /\ \E i \in DOMAIN users : users[i].email = resp.arg.email
  /\ \A i \in DOMAIN users : users[i].username # resp.arg.username

\* C8: no two user records share an email and none share a username,
\* however register and updateProfile requests interleave.
C8_UniqueUsers ==
  \A i, j \in DOMAIN users :
    i # j => (users[i].email # users[j].email /\ users[i].username # users[j].username)

\* a register request passed its lookups, another request wrote meanwhile,
\* and the store refused its insert; two users are stored
C8_Witness ==
  /\ resp.op = "register" /\ resp.code = 500
  /\ \E i \in DOMAIN users : users[i].email = resp.arg.email
  /\ Cardinality(DOMAIN users) = 2

\* the step is a login request that names no user, a deactivated user, or
\* a password that is not the user's
LoginBad ==
  /\ resp'.op = "login"
  /\ \/ \A i \in DOMAIN users : users[i].email # resp'.arg.email
     \/ \E i \in DOMAIN users :
          /\ users[i].email = resp'.arg.email
          /\ ~users[i].isActive \/ users[i].password # hash(resp'.arg.password)

\* C9: a failed login (unknown email, wrong password, deactivated account)
\* returns 401, issues no token and leaves every lastLogin as it was.
C9_FailedLogin ==
  [][LoginBad => /\ resp'.code = 401
                 /\ resp'.recs = {}
                 /\ tokens' = tokens
                 /\ DOMAIN users' = DOMAIN users
                 /\ \A i \in DOMAIN users : users'[i].lastLogin = users[i].lastLogin]_vars

\* a login with the wrong password for an active user was refused
C9_Witness ==
  /\ resp.op = "login" /\ resp.code = 401
  /\ \E i \in DOMAIN users :
       /\ users[i].email = resp.arg.email
       /\ users[i].isActive
       /\ users[i].password # hash(resp.arg.password)

\* the token of a verifyToken request is missing, signed with another key,
\* expired, or names a user who is gone or deactivated
BadToken(t) ==
  \/ t = NoToken
  \/ t.sig # "secret"
  \/ clock >= t.exp
  \/ t.id \notin DOMAIN users
  \/ ~users[t.id].isActive

\* C10: token verification answers 401 whenever the token is missing, its
\* signature is invalid, it has expired, or its user no longer exists or is
\* deactivated, also when the same token verified before.
C10_VerifyToken ==
  [][(resp'.op = "verifyToken" /\ BadToken(resp'.arg)) => resp'.code = 401]_vars

\* a token that had verified, and has not expired, was refused because its
\* user is now deactivated
C10_Witness ==
  /\ resp.op = "verifyToken" /\ resp.code = 401
  /\ resp.arg \in DOMAIN tokens
  /\ tokens[resp.arg]
  /\ clock < resp.arg.exp
  /\ resp.arg.id \in DOMAIN users
  /\ ~users[resp.arg.id].isActive

\* the step changes a project or a testimonial
StoreChanged == projects' # projects \/ testimonials' # testimonials

\* C11: a project or testimonial mutation takes effect only for a request
\* that carried a valid admin token; a request without a token or with an
\* invalid one is answered 401, one with a valid non-admin token 403, and
\* neither changes the store.
C11_AdminOnlyMutations ==
  [][/\ StoreChanged => (Admitted(resp.op) /\ resp.op \in MutationOps /\ resp.arg = "admin")
     /\ (resp'.op \in MutationOps /\ resp'.code \in {0, 401, 403}) =>
          /\ resp'.arg \in {"none", "invalid"} => (resp'.code = 401 /\ ~StoreChanged)
          /\ resp'.arg = "nonadmin" => (resp'.code = 403 /\ ~StoreChanged)
          /\ resp'.arg = "admin" => resp'.code = 0]_vars

\* a delete with a non-admin token was refused while the testimonial it
\* names is stored
C11_Witness ==
  /\ resp.op = "deleteTestimonial" /\ resp.code = 403
  /\ testimonials # <<>>

ListingOps ==
  {"getProjects", "getProjectsByYear", "getProjectsByTechnology", "getTestimonials",
   "getTestimonialsByRating", "getTestimonialsByCompany"}

\* the documents that match the filter of listing response r, in the store
\* the request was answered from
MatchingOf(r) ==
  CASE r.op = "getProjects" ->
         {i \in DOMAIN projects \cap r.query.match :
            /\ projects[i].status = "published"
            /\ r.query.featured # NoVal => projects[i].featured = (r.query.featured = "true")}
    [] r.op \in {"getProjectsByYear", "getProjectsByTechnology"} ->
         {i \in DOMAIN projects \cap r.query.match : projects[i].status = "published"}
    [] r.op = "getTestimonials" ->
         {i \in DOMAIN testimonials \cap r.query.match :
            /\ testimonials[i].status = "approved"
            /\ r.query.rating = "5" => testimonials[i].rating >= 5}
    [] r.op = "getTestimonialsByRating" ->
         {i \in DOMAIN testimonials :
            /\ testimonials[i].status = "approved"
            /\ r.query.rating = "4" => testimonials[i].rating >= 4
            /\ r.query.rating = "5" => testimonials[i].rating >= 5}
    [] OTHER ->
         {i \in DOMAIN testimonials \cap r.query.match : testimonials[i].status = "approved"}

\* the documents S as a sequence, newest first
RECURSIVE SortDesc(_)
SortDesc(S) ==
  IF S = {} THEN <<>>
  ELSE LET newest == CHOOSE x \in S : \A y \in S : y <= x
       IN <<newest>> \o SortDesc(S \ {newest})

\* the page and the limit a listing request with numeric parameters asks for
PageAsked(r) ==
  CASE r.query.page = "2" -> 2 [] OTHER -> 1

LimitAsked(r) ==
  CASE r.query.limit = "1" -> 1 [] r.query.limit = "2" -> 2 [] OTHER -> 10

\* the records at offsets (page-1)*limit .. (page-1)*limit + limit - 1 of seq
SliceAt(seq, page, limit) ==
  {seq[k] : k \in {k \in 1..Len(seq) : k > (page - 1) * limit /\ k <= page * limit}}

\* C12: a listing called with page >= 1 and limit >= 1 reports as total the
\* number of records matching the filter, as pages ceil(total / limit), and
\* returns at most limit records: those at offsets (page-1)*limit ..
\* (page-1)*limit + limit - 1 of the sorted matching records.
C12_Pagination ==
  [][(/\ resp'.op \in ListingOps /\ resp'.code = 200
      /\ resp'.query.page # "abc" /\ resp'.query.limit # "abc")
     => LET matching == MatchingOf(resp')
            total == Cardinality(matching)
            limit == LimitAsked(resp')
            pages == resp'.pagination.pages
        IN /\ resp'.pagination.total = total
           /\ pages * limit >= total /\ (pages - 1) * limit < total
           /\ Cardinality(resp'.recs) <= limit
           /\ {d[1] : d \in resp'.recs} = SliceAt(SortDesc(matching), PageAsked(resp'), limit)]_vars

\* the second page of a project listing with limit 1 was answered with a
\* record, out of three that match
C12_Witness ==
  /\ resp.op = "getProjects" /\ resp.code = 200
  /\ resp.query.page = "2" /\ resp.query.limit = "1"
  /\ resp.pagination.total = 3
  /\ resp.pagination.pages = 3
  /\ Cardinality(resp.recs) = 1

\* the rating a parameter of the rating lookup denotes, when it is a number
\* in 1..5; 0 when it is not
RatingDenoted(v) == CASE v = "4" -> 4 [] v = "5" -> 5 [] OTHER -> 0

\* C13: the rating lookup answers 400, with no testimonials, a rating
\* parameter that is non-numeric, below 1 or above 5; for a rating r in 1..5
\* it returns only approved testimonials with rating >= r.
C13_RatingLookup ==
  [][resp'.op = "getTestimonialsByRating" =>
       IF RatingDenoted(resp'.query.rating) = 0
       THEN resp'.code = 400 /\ resp'.recs = {}
       ELSE /\ resp'.code = 200
            /\ \A d \in resp'.recs :
                 /\ d[2] = "approved"
                 /\ testimonials[d[1]].rating >= RatingDenoted(resp'.query.rating)]_vars

\* a rating parameter that is non-numeric or outside 1..5
InvalidRating(v) == v \in {"abc", "5abc", "0", "6"}

\* the documents a testimonial listing response r would hold had its
\* request carried no rating
UnratedMatches(r) ==
  {i \in DOMAIN testimonials \cap r.query.match :
     /\ testimonials[i].status =
          (IF r.arg = AdminUser /\ r.query.status # NoVal THEN r.query.status ELSE "approved")
     /\ r.query.featured # NoVal => testimonials[i].featured = (r.query.featured = "true")}

\* C14: on the general testimonial listing a rating parameter that is
\* non-numeric or outside 1..5 is dropped: the request succeeds and returns
\* what it would return without a rating filter.
C14_InvalidRatingDropped ==
  [][(resp'.op = "getTestimonials" /\ InvalidRating(resp'.query.rating))
     => /\ resp'.code = 200
        /\ {d[1] : d \in resp'.recs} = UnratedMatches(resp')]_vars

\* the page and the limit a listing request is to be answered with when a
\* parameter that is no number counts as absent
PageOrDefault(r) == IF r.query.page = "abc" THEN 1 ELSE PageAsked(r)

LimitOrDefault(r) == IF r.query.limit = "abc" THEN DefaultLimit ELSE LimitAsked(r)

\* C15: a listing request whose page or limit is non-numeric succeeds and is
\* answered as if the default (page 1, limit 10) had been supplied in its
\* place, with pagination.page, pagination.limit and pagination.pages all
\* numbers.
C15_NonNumericPaging ==
  [][(/\ resp'.op \in ListingOps
      /\ resp'.query.page = "abc" \/ resp'.query.limit = "abc")
     => /\ resp'.code = 200
        /\ resp'.pagination.page = PageOrDefault(resp')
        /\ resp'.pagination.limit = LimitOrDefault(resp')
        /\ ~isNaN(resp'.pagination.pages)
        /\ {d[1] : d \in resp'.recs}
             = SliceAt(SortDesc(MatchingOf(resp')), PageOrDefault(resp'), LimitOrDefault(resp'))]_vars

\* the user objects a response carries
UserObjects(r) ==
  CASE r.op \in {"register", "login"} /\ r.code \in {200, 201} -> {r.user}
    [] r.op \in {"getProfile", "updateProfile", "verifyToken", "getUsers"} -> r.recs
    [] r.op = "getProjectPopulated" /\ r.code = 200 -> r.createdBy \cup r.updatedBy
    [] OTHER -> {}

\* C16: no response carries a user's password hash: not the responses of
\* register, login, the profile routes, verify-token and the user listing,
\* nor the populated creator and updater of a project.
C16_NoPasswordInResponses ==
  \A u \in UserObjects(resp) : "password" \notin DOMAIN u

\* the user listing answers with a stored user
C16_Witness ==
  /\ resp.op = "getUsers" /\ resp.code = 200
  /\ \E i \in DOMAIN users : SelectWithoutPassword(users[i]) \in resp.recs

\* C17: concurrent insertions of featured testimonials exceed the cap only
\* while they run: once every request and its post-save eviction steps have
\* completed, at most MaxFeatured testimonials are featured.
C17_CapOnceQuiet ==
  pending = {} => Cardinality(Featured) <= MaxFeatured

\* the views counted on the projects S
RECURSIVE Views(_)
Views(S) ==
  IF S = {} THEN 0
  ELSE LET id == CHOOSE i \in S : TRUE
       IN projects[id].viewCount + Views(S \ {id})

\* C18: whatever the interleaving of k concurrent fetches of published
\* projects that start with no view, no increment is lost: once all of them
\* have completed, the stored viewCounts add up to k, the number of saves
\* made (clock - StartTime), and so each project's viewCount is its initial
\* value plus the number of its fetches.
C18_NoViewLost ==
  pending = {} => Views(DOMAIN projects) = clock - StartTime

\* C19: a testimonial created without an explicit status starts in status
\* pending, and a public read returns no testimonial that is not approved, so
\* the new one is not returned until an admin approves it.
C19_StartsPending ==
  [][/\ (resp'.op = "createTestimonial" /\ resp'.code = 201 /\ resp'.arg.status = NoVal)
         => testimonials'[resp'.id].status = "pending"
     /\ (resp'.op \in TestimonialReadOps /\ resp'.arg # AdminUser)
         => \A r \in resp'.recs : r[2] = "approved"]_vars

\* the handler op answers a request that carried an admin's token (a step
\* to status 0, 401 or 403 is a guard taking up another request)
AdminAsked(op) ==
  Admitted(op) /\ resp.arg = "admin" /\ resp'.op = op /\ resp'.code \notin {0, 401, 403}

\* C20: for a caller who is an authenticated admin the status restriction
\* is not forced: the project and testimonial listings answer with the
\* records of the status requested (draft, pending), and the read of one
\* stored record returns it whatever its status.
C20_AdminSeesAllStatuses ==
  [][/\ (AdminAsked("getProjects") /\ resp'.query.status # NoVal)
         => /\ resp'.code = 200
            /\ {d[1] : d \in resp'.recs}
                 = {i \in DOMAIN projects : projects[i].status = resp'.query.status}
     /\ (AdminAsked("getTestimonials") /\ resp'.query.status # NoVal)
         => /\ resp'.code = 200
            /\ {d[1] : d \in resp'.recs}
                 = {i \in DOMAIN testimonials : testimonials[i].status = resp'.query.status}
     /\ (AdminAsked("getProject") /\ Exists(projects, resp'.id))
         => resp'.code = 200 /\ resp'.recs = Docs(projects, {resp'.id})
     /\ (AdminAsked("getTestimonial") /\ Exists(testimonials, resp'.id))
         => resp'.code = 200 /\ resp'.recs = Docs(testimonials, {resp'.id})]_vars

\* a login or a register answered with a token
SignedIn == resp'.op \in {"login", "register"} /\ resp'.code \in {200, 201}

\* C21: every successful login and every successful register sets that
\* user's lastLogin to the time of the request before the token is returned
\* (the user of the response carries it), and changes no other user's
\* record.
C21_LastLogin ==
  [][SignedIn =>
       /\ resp'.id \in DOMAIN users'
       /\ users'[resp'.id].lastLogin = clock'
       /\ clock' > clock
       /\ resp'.user.lastLogin = clock'
       /\ \A i \in DOMAIN users \ {resp'.id} :
            i \in DOMAIN users' /\ users'[i] = users[i]]_vars

\* a user who registered earlier has logged in: lastLogin moved on
C21_Witness ==
  /\ resp.op = "login" /\ resp.code = 200
  /\ users[resp.id].lastLogin = clock /\ clock > resp.id

\* the counts a statistics response is to carry
StatCounts(op) ==
  IF op = "getProjectStats"
  THEN {"total", "featured", "published", "draft", "totalViews"}
  ELSE {"total", "featured", "approved", "pending"}

StatDistributions(op) ==
  IF op = "getProjectStats"
  THEN {"yearDistribution", "techDistribution"}
  ELSE {"ratingDistribution"}

\* the collection a statistics endpoint reports on is empty
OnEmpty(op) ==
  IF op = "getProjectStats" THEN DOMAIN projects = {} ELSE DOMAIN testimonials = {}

\* C22: on an empty collection the statistics endpoints for projects and for
\* testimonials answer with zero for every count (and for the average
\* rating) and with empty distributions; no such field is missing and the
\* request does not fail.
C22_EmptyStatistics ==
  [][(/\ resp'.op \in {"getProjectStats", "getTestimonialStats", "getTestimonialStatsFacet"}
      /\ OnEmpty(resp'.op))
     => /\ resp'.code = 200
        /\ \A f \in StatCounts(resp'.op) :
             f \in DOMAIN resp'.stats /\ resp'.stats[f] = 0
        /\ resp'.op # "getProjectStats" =>
             /\ "averageRating" \in DOMAIN resp'.stats
             /\ resp'.stats.averageRating.sum = 0
        /\ \A f \in StatDistributions(resp'.op) :
             f \in DOMAIN resp'.stats /\ resp'.stats[f] = {}]_vars

\* the public listings of testimonials
TestimonialListOps ==
  {"getFeaturedTestimonials", "getTestimonialsByRating", "getTestimonialsByCompany"}

\* C23: visibility follows the latest approve or reject.  A reject leaves
\* the testimonial rejected and an approve leaves it approved, also when it
\* was approved already; a non-admin read of a stored testimonial answers
\* 404 while it is rejected and returns it while it is approved; the public
\* listings return no testimonial that is not approved.
C23_VisibilityFollowsStatus ==
  [][/\ (resp'.op = "rejectTestimonial" /\ resp'.code = 200)
         => testimonials'[resp'.id].status = "rejected"
     /\ (resp'.op = "approveTestimonial" /\ resp'.code = 200)
         => testimonials'[resp'.id].status = "approved"
     /\ (resp'.op = "getTestimonial" /\ resp'.arg # AdminUser /\ Exists(testimonials, resp'.id))
         => /\ testimonials[resp'.id].status = "rejected" => resp'.code = 404
            /\ testimonials[resp'.id].status = "approved"
                 => resp'.code = 200 /\ resp'.recs = {<<resp'.id, "approved">>}
     /\ resp'.op \in TestimonialListOps
         => \A d \in resp'.recs : testimonials[d[1]].status = "approved"]_vars

\* a public read of a rejected testimonial was answered 404
C23_Witness ==
  /\ resp.op = "getTestimonial" /\ resp.code = 404
  /\ Exists(testimonials, resp.id)
  /\ testimonials[resp.id].status = "rejected"

\* C24: auto-featuring happens only at creation: verifying an existing
\* testimonial (of five stars or not), or updating an existing testimonial
\* (verified or not, to rating 5 or not) with a body that does not name
\* featured, leaves its featured flag as it was.
C24_NoLateAutoFeature ==
  [][(resp'.op \in {"verifyTestimonial", "updateTestimonial"} /\ resp'.code = 200)
     => testimonials'[resp'.id].featured = testimonials[resp'.id].featured]_vars

\* a five-star testimonial has been verified and is not featured
C24_Witness ==
  /\ resp.op = "verifyTestimonial" /\ resp.code = 200
  /\ testimonials[resp.id].rating = 5
  /\ testimonials[resp.id].verified
  /\ ~testimonials[resp.id].featured

\* changePassword has answered op with status code
PasswordAnswer(code) == resp'.op = "changePassword" /\ resp'.code = code

\* what C25 says of the requests as they are answered: change-password
\* answers 400 exactly on a current password that does not verify and then
\* leaves the users as they are; on success the new password verifies
\* against the stored credential; and a login for an active user succeeds
\* exactly when its password verifies against the stored credential, so the
\* old password still logs in after a 400 and the new one after a 200
PasswordReplaced ==
  /\ PasswordAnswer(400)
       => /\ ~compare(resp'.body.currentPassword, users[resp'.id].password)
          /\ users' = users
  /\ PasswordAnswer(200)
       => /\ compare(resp'.body.currentPassword, users[resp'.id].password)
          /\ compare(resp'.body.newPassword, users'[resp'.id].password)
  /\ resp'.op = "login"
       => \A i \in DOMAIN users :
            (users[i].email = resp'.arg.email /\ users[i].isActive)
              => /\ compare(resp'.arg.password, users[i].password) => resp'.code = 200
                 /\ ~compare(resp'.arg.password, users[i].password) => resp'.code = 401

\* C25 as stated: changePassword replaces the stored credential only when
\* the current password supplied verifies; on mismatch it answers 400 and the
\* old password still logs in; on success a login with the new password
\* succeeds and the old password no longer verifies, so that a login with
\* it answers 401.
C25_AsStated ==
  [][/\ PasswordReplaced
     /\ PasswordAnswer(200)
          => ~compare(resp'.body.currentPassword, users'[resp'.id].password)]_vars

\* C25 amended: as above, the old password being refused after a success
\* when the new password differs from it.
C25_PasswordChange ==
  [][/\ PasswordReplaced
     /\ (PasswordAnswer(200) /\ resp'.body.newPassword # resp'.body.currentPassword)
          => ~compare(resp'.body.currentPassword, users'[resp'.id].password)]_vars

\* a password has been replaced by another one
C25_Witness ==
  /\ resp.op = "changePassword" /\ resp.code = 200
  /\ resp.body.newPassword # resp.body.currentPassword
  /\ users[resp.id].password = hash(resp.body.newPassword)

\* an approve, reject or verify request has been carried out, or a request
\* that cleared the featured flag of its testimonial
StatusOrUnfeature ==
  /\ resp'.code = 200
  /\ \/ resp'.op \in {"approveTestimonial", "rejectTestimonial", "verifyTestimonial"}
     \/ /\ resp'.op \in {"toggleFeaturedTestimonial", "setFeaturedTestimonial"}
        /\ testimonials[resp'.id].featured
        /\ ~testimonials'[resp'.id].featured

\* C26: an approve, reject or verify request on testimonial T, and a
\* request that clears T's featured flag, change no field of any testimonial
\* other than T.
C26_OthersUntouched ==
  [][StatusOrUnfeature =>
       \A i \in DOMAIN testimonials \ {resp'.id} :
         i \in DOMAIN testimonials' /\ testimonials'[i] = testimonials[i]]_vars

\* C27: in every listing response the number of records returned is at
\* most pagination.total, whatever create and delete requests ran while the
\* listing request was being handled.
C27_RecordsWithinTotal ==
  (resp.op \in {"getProjects", "getTestimonials"} /\ resp.code = 200)
    => Cardinality(resp.recs) <= resp.pagination.total

\* C28: logout changes no server state, and so not what verification
\* answers for its token; a token that is signed, not expired and names an
\* active user passes verification, whether it was logged out or not.
C28_LogoutKeepsToken ==
  [][/\ (resp'.op = "logout" /\ resp'.code = 200)
         => /\ UNCHANGED <<projects, testimonials, users, tokens, pending, clock>>
            /\ VerifyStatus(users', resp'.arg, clock') = VerifyStatus(users, resp'.arg, clock)
     /\ (resp'.op = "verifyToken" /\ ~BadToken(resp'.arg)) => resp'.code = 200]_vars

\* a token has been logged out and passes verification
C28_Witness ==
  /\ resp.op = "logout" /\ resp.code = 200
  /\ VerifyStatus(users, resp.arg, clock) = 200

\* C29: duplicating a stored project adds exactly one project, a draft that is
\* not featured, has no views and is titled as the original with ' (Copy)'
\* appended, and leaves every stored project as it was; a draft is not shown
\* to a reader who is not an admin.
C29_DuplicateCreatesDraftCopy ==
  [][/\ (resp'.op = "duplicateProject" /\ Exists(projects, resp'.arg))
          => \E new \in DOMAIN projects' \ DOMAIN projects :
               /\ DOMAIN projects' = DOMAIN projects \cup {new}
               /\ projects'[new] = [status    |-> "draft",
                                    featured  |-> FALSE,
                                    viewCount |-> 0,
                                    title     |-> projects[resp'.arg].title \o " (Copy)"]
               /\ \A i \in DOMAIN projects : projects'[i] = projects[i]
     /\ (/\ resp'.op = "getProject" /\ resp'.arg # AdminUser
         /\ Exists(projects, resp'.id) /\ projects[resp'.id].status = "draft")
          => resp'.code = 404]_vars

\* no two records of the array share an id
UniqueIds(file) == \A i, j \in DOMAIN file : i # j => file[i].id # file[j].id

\* C30: after every add, update and delete of the file store no two records
\* of a collection share an id, and an update leaves the id of the record it
\* writes as it was.
C30_UniqueStableIds ==
  [][/\ UniqueIds(projects') /\ UniqueIds(testimonials') /\ UniqueIds(users')
     /\ (resp'.op = "DataStore.updateProject" /\ resp'.code = 200)
          => projects'[resp'.id].id = projects[resp'.id].id
     /\ (resp'.op = "DataStore.updateTestimonial" /\ resp'.code = 200)
          => testimonials'[resp'.id].id = testimonials[resp'.id].id]_vars

====
